---- MODULE Spec2Model ----
(***************************************************************************)
(* A model of gif-spinner.                                                 *)
(*                                                                         *)
(* The raster-to-vector pipeline (src/js/svgConverter.js): preprocessing   *)
(* of an image into a bitmap (preprocessBitmap, preprocessBitmapAdvanced), *)
(* contour tracing on a binary bitmap (findContours), polyline             *)
(* simplification (simplifyContour, pointLineDistance) and path generation *)
(* (contourToSvgPath, generateSmoothPath, simulatePotraceResults).         *)
(*                                                                         *)
(* The layout engine (src/js/spinnerGenerator.js): generatePreview,        *)
(* generateSpinner, generateSpinnerSvg, calculateFramePositions and        *)
(* createFrameElement.                                                     *)
(*                                                                         *)
(* The page (src/js/main.js): processing the frames, the spinner controls, *)
(* generating and exporting; the wizard from the opening of the page, with *)
(* GIF selection, the sections of the four steps and the overlay.          *)
(*                                                                         *)
(* The batch conversion convertFrames (src/js/svgConverter.js) and the     *)
(* exporter Exporters.exportFiles (src/unnamed/part_000).                  *)
(***************************************************************************)
EXTENDS Integers, Sequences, FiniteSets, TLC

\* ------------------------------------------------------------------------
\* Bounds of the model
\* ------------------------------------------------------------------------

\* A bitmap has at most MaxCells pixels (width * height <= MaxCells).
MaxCells == 9

\* Besides the contours findContours returns, simplifyContour is called on
\* every point sequence with coordinates in 0..MaxCoord and at most MaxLen
\* points.
MaxCoord == 1
MaxLen == 4

\* The option values tried: cornerSmoothing in 0..MaxSmoothing and
\* pathOptimization in 0..MaxOptimization (the sliders go from 0 to 10).
MaxSmoothing == 2
MaxOptimization == 2

\* Tolerances are multiples of 0.5 (simulatePotraceResults passes
\* pathOptimization * 0.5): 0, 0.5, ..., MaxTol2 / 2.
MaxTol2 == 3

\* An image given to preprocessBitmap / preprocessBitmapAdvanced has at most
\* MaxPixels pixels.
MaxPixels == 2

\* The layout engine is given at most MaxFrames frames of at most MaxPaths
\* path elements each and a frameCount in 1..MaxFrameCount.
MaxFrames == 2
MaxPaths == 1
MaxFrameCount == 3

\* An entry point of the layout engine is called at most MaxCalls times on
\* the same frames and options.
MaxCalls == 2

\* convertFrames is given at most MaxBatch frames.
MaxBatch == 5

\* The wizard: at most MaxSelections GIFs are selected and at most
\* MaxClicks clicks made on the three buttons.
MaxSelections == 2
MaxClicks == 3

\* ------------------------------------------------------------------------
\* State
\* ------------------------------------------------------------------------

VARIABLES
    \* findContours: arguments
    width, height, bitmap,
    \* findContours: locals
    visited, contours, sidx, contour, cx, cy, dir, count, stop, pc,
    \* log of every trace findContours has finished: its seed index, the
    \* points it pushed and why its while loop ended
    traces,
    \* simplifyContour called on its own: the contour, the call made, its
    \* tolerance in halves and the contour returned
    sContour, sCall, sTol2, sResult,
    \* convertFrameSimple / convertFrameAdvanced after findContours: the
    \* method, the options, the contour each path was generated from and
    \* the path data of each path element
    method, options, optimized, paths,
    \* the layout engine: the frames and options an entry point is called
    \* with, the entry point called, what it returned (or the state of the
    \* promise it returned), the progress last reported and the number of
    \* calls completed
    svgFrames, layoutOptions, layoutCall, layoutResult, layoutProgress,
    layoutCalls,
    \* preprocessBitmap / preprocessBitmapAdvanced: the image, the options,
    \* the function called and the bitmap it returned
    imageData, preOptions, preCall, preBitmap,
    \* the page: the values of the seven spinner controls,
    \* appState.processedFrames, the content of the preview container,
    \* appState.spinnerSvg, the asynchronous handler that is waiting, the
    \* design Exporters.exportFiles is working on, appState.currentStep
    controls, processedFrames, spinnerPreview, spinnerSvg, pageCall,
    handedToExporter, currentStep,
    \* convertFrames: frames.length, the method, the loop index i, the
    \* indices of the frames whose documents were pushed to svgFrames, the
    \* progress last reported, where the call stands, and the caller's
    \* request to cancel with the index of the frame in conversion when it
    \* was made
    batchLength, batchMethod, batchIndex, batchSvgFrames, batchProgress,
    batchCall, cancel,
    \* the wizard: the files a FileReader is reading, the URLs loadGif is
    \* loading, the URLs in the order the user selected them, the number of
    \* calls of convertFrames, generateSpinner and Exporters.exportFiles
    \* that are awaited, the number of clicks made, whether a load failed,
    \* appState.selectedGif, the GIF appState.gifFrames came from, whether
    \* appState.processedFrames is non-empty and appState.spinnerSvg set,
    \* appState.processingStatus.inProgress, and which of the sections and
    \* the overlay have the class hidden
    reads, loads, selections, awaited, clicks, loadFailed, selectedGif,
    gifFrames, hasProcessedFrames, hasSpinnerSvg, inProgress, hidden,
    \* Exporters.exportFiles: the options, the file whose export is
    \* awaited (or how the promise ended), completedExports and the
    \* progress values passed to the progress callback so far, in sixths
    exportOptions, exportCall, completedExports, reported

exportVars == <<exportOptions, exportCall, completedExports, reported>>

uiVars == <<reads, loads, selections, awaited, clicks, loadFailed,
            selectedGif, gifFrames, hasProcessedFrames, hasSpinnerSvg,
            inProgress, hidden>>

batchVars == <<batchLength, batchMethod, batchIndex, batchSvgFrames,
               batchProgress, batchCall, cancel>>

\* The variables of the parts added to the converter, the layout engine and
\* the page of SpecPage.
restVars == <<batchVars, uiVars, exportVars>>

pageVars == <<controls, processedFrames, spinnerPreview, spinnerSvg,
              pageCall, handedToExporter, currentStep>>

preprocessVars == <<imageData, preOptions, preCall, preBitmap>>

layoutVars == <<svgFrames, layoutOptions, layoutCall, layoutResult,
                layoutProgress, layoutCalls>>

simplifyVars == <<sContour, sCall, sTol2, sResult>>

convertVars == <<method, options, optimized, paths>>

traceVars == <<width, height, bitmap, visited, contours, sidx, contour,
               cx, cy, dir, count, stop, pc, traces>>

vars == <<traceVars, simplifyVars, convertVars, preprocessVars, layoutVars,
          pageVars, restVars>>

Pt(px, py) == [x |-> px, y |-> py]

Range(s) == {s[k] : k \in 1..Len(s)}

\* ------------------------------------------------------------------------
\* findContours (svgConverter.js 213-282)
\* ------------------------------------------------------------------------

\* Direction vectors (right, down, left, up); d in 0..3
dx(d) == CASE d = 0 -> 1 [] d = 1 -> 0 [] d = 2 -> -1 [] OTHER -> 0
dy(d) == CASE d = 0 -> 0 [] d = 1 -> 1 [] d = 2 -> 0 [] OTHER -> -1

\* const idx = y * width + x, and back
IdxOf(px, py) == py * width + px
XOf(i) == i % width
YOf(i) == i \div width

\* const maxSteps = width * height
maxSteps == width * height

\* The test of the inner for loop: the neighbour of (cx, cy) in direction d
\* is inside the bitmap and set.
IsForegroundNeighbour(d) ==
    LET nx == cx + dx(d)
        ny == cy + dy(d)
    IN  /\ nx >= 0 /\ nx < width /\ ny >= 0 /\ ny < height
        /\ bitmap[IdxOf(nx, ny)] = 1

\* The inner for loop: the number of rotations (0..3) after which a set
\* neighbour is found, 4 when there is none.
FirstTurn ==
    IF \E i \in 0..3 : IsForegroundNeighbour((dir + i) % 4)
    THEN CHOOSE i \in 0..3 :
            /\ IsForegroundNeighbour((dir + i) % 4)
            /\ \A j \in 0..(i - 1) : ~IsForegroundNeighbour((dir + j) % 4)
    ELSE 4

\* IsSeed without the visited test: every set pixel starts a contour.
IsSeed_IgnoresVisited(i) == bitmap[i] = 1

\* if (bitmap[idx] === 1 && visited[idx] === 0)
IsSeed(i) == bitmap[i] = 1 /\ visited[i] = 0

\* if (contour.length > 2)
IsRetained(c) == Len(c) > 2

TraceInit ==
    /\ width \in 1..MaxCells
    /\ height \in 1..MaxCells
    /\ width * height <= MaxCells
    /\ bitmap \in [0..(width * height - 1) -> {0, 1}]
    /\ visited = [i \in 0..(width * height - 1) |-> 0]
    /\ contours = <<>>
    /\ sidx = 0
    /\ contour = <<>>
    /\ cx = 0
    /\ cy = 0
    /\ dir = 0
    /\ count = 0
    /\ stop = "none"
    /\ pc = "scan"
    /\ traces = <<>>

\* The scan passes a pixel that starts no contour.
ScanSkip ==
    /\ pc = "scan"
    /\ sidx < width * height
    /\ ~IsSeed(sidx)
    /\ sidx' = sidx + 1
    /\ UNCHANGED <<width, height, bitmap, visited, contours, contour,
                   cx, cy, dir, count, stop, pc, traces>>

\* The scan reaches an unvisited set pixel: start a new contour.
StartContour ==
    /\ pc = "scan"
    /\ sidx < width * height
    /\ IsSeed(sidx)
    /\ contour' = <<>>
    /\ cx' = XOf(sidx)
    /\ cy' = YOf(sidx)
    /\ dir' = 0
    /\ count' = 0
    /\ stop' = "none"
    /\ pc' = "trace"
    /\ UNCHANGED <<width, height, bitmap, visited, contours, sidx, traces>>

\* One iteration of while (count < maxSteps).
TraceStep ==
    /\ pc = "trace"
    /\ stop = "none"
    /\ count < maxSteps
    /\ LET pushed == Append(contour, Pt(cx, cy))
           turn == FirstTurn
           found == turn < 4
           ndir == (dir + turn) % 4
           nx == IF found THEN cx + dx(ndir) ELSE cx
           ny == IF found THEN cy + dy(ndir) ELSE cy
           atSeed == Len(pushed) > 2 /\ nx = pushed[1].x /\ ny = pushed[1].y
       IN  /\ visited' = [visited EXCEPT ![IdxOf(cx, cy)] = 1]
           /\ contour' = pushed
           /\ cx' = nx
           /\ cy' = ny
           /\ IF ~found \/ atSeed
              THEN /\ stop' = (IF ~found THEN "nofound" ELSE "seed")
                   /\ dir' = ndir
                   /\ count' = count
              ELSE /\ stop' = "none"
                   /\ dir' = (ndir + 3) % 4
                   /\ count' = count + 1
    /\ UNCHANGED <<width, height, bitmap, contours, sidx, pc, traces>>

\* After the while loop: keep the contour if it has more than 2 points,
\* then the scan goes on with the next pixel.
EndContour ==
    /\ pc = "trace"
    /\ (stop # "none" \/ count >= maxSteps)
    /\ contours' = IF IsRetained(contour) THEN Append(contours, contour)
                   ELSE contours
    /\ traces' = Append(traces,
                    [seed |-> sidx, points |-> contour,
                     stop |-> IF stop = "none" THEN "budget" ELSE stop])
    /\ sidx' = sidx + 1
    /\ pc' = "scan"
    /\ UNCHANGED <<width, height, bitmap, visited, contour, cx, cy, dir,
                   count, stop>>

\* return contours
ReturnContours ==
    /\ pc = "scan"
    /\ sidx = width * height
    /\ pc' = "done"
    /\ UNCHANGED <<width, height, bitmap, visited, contours, sidx, contour,
                   cx, cy, dir, count, stop, traces>>


\* ------------------------------------------------------------------------
\* pointLineDistance (svgConverter.js 425-461)
\* ------------------------------------------------------------------------

\* The distance from point to the segment lineStart-lineEnd. The code
\* returns Math.sqrt of a rational; the model keeps the square of the
\* distance as the exact fraction num / den (den > 0).
\*   t < 0  <=>  dot < 0,   t > 1  <=>  dot > dx*dx + dy*dy,
\*   otherwise |point - proj|^2 = cross^2 / (dx*dx + dy*dy).
pointLineDistance(point, lineStart, lineEnd) ==
    LET ldx == lineEnd.x - lineStart.x
        ldy == lineEnd.y - lineStart.y
        sx == point.x - lineStart.x
        sy == point.y - lineStart.y
        ex == point.x - lineEnd.x
        ey == point.y - lineEnd.y
        dot == sx * ldx + sy * ldy
        len2 == ldx * ldx + ldy * ldy
        cross == sx * ldy - sy * ldx
    IN  IF ldx = 0 /\ ldy = 0 THEN [num |-> sx * sx + sy * sy, den |-> 1]
        ELSE IF dot < 0 THEN [num |-> sx * sx + sy * sy, den |-> 1]
        ELSE IF dot > len2 THEN [num |-> ex * ex + ey * ey, den |-> 1]
        ELSE [num |-> cross * cross, den |-> len2]

\* dist > maxDist on two squared distances
DistGreater(a, b) == a.num * b.den > b.num * a.den

\* maxDist > tolerance, the tolerance given in halves
ExceedsTolerance(d, tol2) == 4 * d.num > tol2 * tol2 * d.den

\* ------------------------------------------------------------------------
\* simplifyContour (svgConverter.js 385-416)
\* ------------------------------------------------------------------------

\* The for loop of simplifyContour from (1-based) position i on: the
\* farthest point so far is at 0-based index `index`, at distance maxDist.
RECURSIVE FarthestFrom(_, _, _, _)
FarthestFrom(c, i, maxDist, index) ==
    IF i > Len(c) - 1 THEN [maxDist |-> maxDist, index |-> index]
    ELSE LET dist == pointLineDistance(c[i], c[1], c[Len(c)])
         IN  IF DistGreater(dist, maxDist)
             THEN FarthestFrom(c, i + 1, dist, i - 1)
             ELSE FarthestFrom(c, i + 1, maxDist, index)

\* let maxDist = 0; let index = 0; for (let i = 1; i < length - 1; i++)
Farthest(c) == FarthestFrom(c, 2, [num |-> 0, den |-> 1], 0)

\* simplifyContour that splits at the last point farther than the tolerance
\* instead of the farthest point.
RECURSIVE simplifyContour_SplitsAtLastOver(_, _)
simplifyContour_SplitsAtLastOver(c, tol2) ==
    IF Len(c) <= 2 THEN c
    ELSE LET over == {i \in 2..(Len(c) - 1) :
                        ExceedsTolerance(
                            pointLineDistance(c[i], c[1], c[Len(c)]), tol2)}
         IN  IF over # {}
             THEN LET k == CHOOSE i \in over : \A j \in over : j <= i
                      part1 == simplifyContour_SplitsAtLastOver(
                                   SubSeq(c, 1, k), tol2)
                      part2 == simplifyContour_SplitsAtLastOver(
                                   SubSeq(c, k, Len(c)), tol2)
                  IN  SubSeq(part1, 1, Len(part1) - 1) \o part2
             ELSE <<c[1], c[Len(c)]>>

\* simplifyContour that compares the maximum distance with twice the
\* tolerance.
RECURSIVE simplifyContour_DoubleTolerance(_, _)
simplifyContour_DoubleTolerance(c, tol2) ==
    IF Len(c) <= 2 THEN c
    ELSE LET far == Farthest(c)
         IN  IF ExceedsTolerance(far.maxDist, 2 * tol2)
             THEN LET part1 == simplifyContour_DoubleTolerance(
                                   SubSeq(c, 1, far.index + 1), tol2)
                      part2 == simplifyContour_DoubleTolerance(
                                   SubSeq(c, far.index + 1, Len(c)), tol2)
                  IN  SubSeq(part1, 1, Len(part1) - 1) \o part2
             ELSE <<c[1], c[Len(c)]>>

\* simplifyContour(contour, tolerance), tolerance = tol2 / 2
RECURSIVE simplifyContour(_, _)
simplifyContour(c, tol2) ==
    IF Len(c) <= 2 THEN c
    ELSE LET far == Farthest(c)
         IN  IF ExceedsTolerance(far.maxDist, tol2)
             THEN LET part1 == simplifyContour(
                                   SubSeq(c, 1, far.index + 1), tol2)
                      part2 == simplifyContour(
                                   SubSeq(c, far.index + 1, Len(c)), tol2)
                  IN  SubSeq(part1, 1, Len(part1) - 1) \o part2
             ELSE <<c[1], c[Len(c)]>>

\* The points and contours simplifyContour is called with.
Points == {Pt(px, py) : px \in 0..MaxCoord, py \in 0..MaxCoord}
Contours == UNION {[1..n -> Points] : n \in 1..MaxLen}

SimplifyInit ==
    /\ sCall = "none"
    /\ sTol2 = 0
    /\ sResult = <<>>

\* A call simplifyContour(c, t / 2), on a contour findContours returned or
\* on the point sequence chosen at the start.
CallSimplifyContour ==
    /\ sCall = "none"
    /\ pc \in {"idle", "done"}
    /\ \E c \in (IF pc = "idle" THEN {sContour} ELSE Range(contours)),
          t \in 0..MaxTol2 :
          /\ sContour' = c
          /\ sTol2' = t
          /\ sResult' = simplifyContour(c, t)
    /\ sCall' = "simplifyContour"
    /\ UNCHANGED <<traceVars, convertVars>>

\* ------------------------------------------------------------------------
\* contourToSvgPath (svgConverter.js 290-341)
\* ------------------------------------------------------------------------

\* Path data is a sequence of commands [cmd, pts]: cmd is the command
\* letter and pts its coordinate pairs. A coordinate pair is
\*   [x, y]                 the integer point (x, y),
\*   [x, y, ux, uy, r2]     the point at distance r2 / 2 from (x, y) in the
\*                          direction of the vector (ux, uy),
\*   [x20, y20]             the point (x20 / 20, y20 / 20).
Cmd(c, p) == [cmd |-> c, pts |-> p]

\* p1 -/+ vn * radius, radius = smoothing * 0.5
Toward(p, ux, uy, smoothing) ==
    [x |-> p.x, y |-> p.y, ux |-> ux, uy |-> uy, r2 |-> smoothing]

\* The else branch of contourToSvgPath: the commands of iteration i
\* (0-based) and of the iterations after it.
RECURSIVE RoundedFrom(_, _, _)
RoundedFrom(c, i, smoothing) ==
    IF i >= Len(c) THEN <<>>
    ELSE LET n == Len(c)
             p0 == c[((i - 1 + n) % n) + 1]
             p1 == c[i + 1]
             p2 == c[((i + 1) % n) + 1]
             v1x == p1.x - p0.x
             v1y == p1.y - p0.y
             v2x == p2.x - p1.x
             v2y == p2.y - p1.y
             \* v1Len < 1 || v2Len < 1, on the squares
             short == (v1x * v1x + v1y * v1y < 1)
                      \/ (v2x * v2x + v2y * v2y < 1)
             here == IF short THEN <<Cmd("L", <<p1>>)>>
                     ELSE <<Cmd("L", <<Toward(p1, -v1x, -v1y, smoothing)>>),
                            Cmd("Q", <<p1,
                                       Toward(p1, v2x, v2y, smoothing)>>)>>
         IN  here \o RoundedFrom(c, i + 1, smoothing)

contourToSvgPath(c, smoothing) ==
    IF Len(c) = 0 THEN <<>>
    ELSE <<Cmd("M", <<c[1]>>)>>
         \o (IF smoothing = 0
             THEN [i \in 1..(Len(c) - 1) |-> Cmd("L", <<c[i + 1]>>)]
             ELSE RoundedFrom(c, 1, smoothing))
         \o <<Cmd("Z", <<>>)>>

\* ------------------------------------------------------------------------
\* generateSmoothPath (svgConverter.js 469-502)
\* ------------------------------------------------------------------------

\* The control point p + (q - o) * tensionFactor, with
\* tensionFactor = 0.2 + smoothing * 0.05 = (4 + smoothing) / 20, and
\* p - (q - o) * tensionFactor for sign = -1.
Control(p, q, o, sign, smoothing) ==
    [x20 |-> 20 * p.x + sign * (q.x - o.x) * (4 + smoothing),
     y20 |-> 20 * p.y + sign * (q.y - o.y) * (4 + smoothing)]

generateSmoothPath(c, smoothing) ==
    IF Len(c) <= 2
    THEN <<Cmd("M", <<c[1]>>), Cmd("L", <<c[Len(c)]>>)>>
    ELSE LET points == IF c[1].x # c[Len(c)].x \/ c[1].y # c[Len(c)].y
                       THEN c \o <<c[1], c[2], c[3]>>
                       ELSE c
         IN  <<Cmd("M", <<points[1]>>)>>
             \o [i \in 1..(Len(points) - 3) |->
                    LET p0 == points[i]
                        p1 == points[i + 1]
                        p2 == points[i + 2]
                        p3 == points[i + 3]
                    IN  Cmd("C", <<Control(p1, p2, p0, 1, smoothing),
                                   Control(p2, p3, p1, -1, smoothing),
                                   p2>>)]

\* ------------------------------------------------------------------------
\* convertFrameSimple (44-70), simulatePotraceResults (351-377)
\* ------------------------------------------------------------------------

\* value || fallback on a number
OrDefault(value, fallback) == IF value = 0 THEN fallback ELSE value

\* options.pathOptimization || 5 and options.cornerSmoothing || 2
DefaultPathOptimization == 5
DefaultCornerSmoothing == 2

\* simulatePotraceResults 366-369: the contour the path is generated from
optimizedContour(c, opts) ==
    LET pathOptimization ==
            OrDefault(opts.pathOptimization, DefaultPathOptimization)
    IN  IF pathOptimization > 0 THEN simplifyContour(c, pathOptimization)
        ELSE c

OptionValues ==
    [cornerSmoothing : 0..MaxSmoothing, pathOptimization : 0..MaxOptimization]

ConvertInit ==
    /\ method = "none"
    /\ options = [cornerSmoothing |-> 0, pathOptimization |-> 0]
    /\ optimized = <<>>
    /\ paths = <<>>

\* convertFrameSimple after findContours: one path per contour, from
\* contourToSvgPath(contour, options.cornerSmoothing || 0).
ConvertFrameSimple ==
    /\ pc = "done"
    /\ sCall = "none"
    /\ \E opts \in OptionValues :
          /\ options' = opts
          /\ optimized' = contours
          /\ paths' = [k \in 1..Len(contours) |->
                          contourToSvgPath(contours[k],
                              OrDefault(opts.cornerSmoothing, 0))]
    /\ method' = "simple"
    /\ pc' = "converted"
    /\ UNCHANGED <<width, height, bitmap, visited, contours, sidx, contour,
                   cx, cy, dir, count, stop, traces>>
    /\ UNCHANGED simplifyVars

\* convertFrameAdvanced after findContours (simulatePotraceResults): each
\* contour is simplified, then generateSmoothPath makes its path.
ConvertFrameAdvanced ==
    /\ pc = "done"
    /\ sCall = "none"
    /\ \E opts \in OptionValues :
          /\ options' = opts
          /\ optimized' = [k \in 1..Len(contours) |->
                              optimizedContour(contours[k], opts)]
          /\ paths' = [k \in 1..Len(contours) |->
                          generateSmoothPath(
                              optimizedContour(contours[k], opts),
                              OrDefault(opts.cornerSmoothing,
                                        DefaultCornerSmoothing))]
    /\ method' = "advanced"
    /\ pc' = "converted"
    /\ UNCHANGED <<width, height, bitmap, visited, contours, sidx, contour,
                   cx, cy, dir, count, stop, traces>>
    /\ UNCHANGED simplifyVars

\* ------------------------------------------------------------------------
\* Properties of findContours
\* ------------------------------------------------------------------------

\* The set pixels of the bitmap, as indices.
Foreground == {i \in 0..(width * height - 1) : bitmap[i] = 1}

\* Two pixel indices are 4-neighbours.
Adjacent(i, j) ==
    \/ (YOf(i) = YOf(j) /\ (XOf(i) - XOf(j) = 1 \/ XOf(j) - XOf(i) = 1))
    \/ (XOf(i) = XOf(j) /\ (YOf(i) - YOf(j) = 1 \/ YOf(j) - YOf(i) = 1))

RECURSIVE Grow(_)
Grow(S) ==
    LET T == S \cup {j \in Foreground : \E i \in S : Adjacent(i, j)}
    IN  IF T = S THEN S ELSE Grow(T)

\* The maximal 4-connected foreground region of a set pixel.
RegionOf(i) == Grow({i})

PointIdx(p) == IdxOf(p.x, p.y)

\* The foreground is exactly one filled W x H rectangle with W, H >= 2.
IsFilledRectangle ==
    \E x0 \in 0..(width - 1), y0 \in 0..(height - 1),
       W \in 2..width, H \in 2..height :
        /\ x0 + W <= width
        /\ y0 + H <= height
        /\ \A i \in 0..(width * height - 1) :
              bitmap[i] = 1 <=>
                  /\ XOf(i) >= x0 /\ XOf(i) < x0 + W
                  /\ YOf(i) >= y0 /\ YOf(i) < y0 + H

\* C1: for a bitmap whose foreground is one filled W x H rectangle with
\* W, H >= 2, findContours returns exactly one contour.
C1_RectangleOneContour ==
    (pc = "done" /\ IsFilledRectangle) => Len(contours) = 1

\* C2: findContours traces each maximal connected foreground region exactly
\* once: no two returned contours lie in the same connected region.
C2_EachRegionOnce ==
    pc = "done" =>
        \A i, j \in 1..Len(contours) :
            i # j =>
                {PointIdx(p) : p \in Range(contours[j])}
                    \cap RegionOf(PointIdx(contours[i][1])) = {}

IsClosed(c) ==
    LET a == c[1]
        b == c[Len(c)]
    IN  \/ a = b
        \/ (a.y = b.y /\ (a.x - b.x = 1 \/ b.x - a.x = 1))
        \/ (a.x = b.x /\ (a.y - b.y = 1 \/ b.y - a.y = 1))

\* C4: every returned contour has at least 3 points and is closed.
C4_ContoursClosed ==
    \A i \in 1..Len(contours) :
        Len(contours[i]) >= 3 /\ IsClosed(contours[i])

\* C5: within one returned contour no grid coordinate appears more than
\* once.
C5_NoPixelRetraced ==
    \A i \in 1..Len(contours) :
        \A a, b \in 1..Len(contours[i]) :
            a # b => contours[i][a] # contours[i][b]

\* The traces whose contour findContours keeps, in order.
KeptTraces == SelectSeq(traces, LAMBDA t : Len(t.points) > 2)

\* C6: the returned contours are ordered by the row-major position of their
\* seed pixel, each contour starts at its seed, and the seed was unvisited
\* foreground when the scan reached it (it is set, and no earlier trace
\* passed over it).
C6_SeedOrder ==
    /\ Len(contours) = Len(KeptTraces)
    /\ \A i \in 1..Len(contours) :
          /\ contours[i] = KeptTraces[i].points
          /\ contours[i][1] = Pt(XOf(KeptTraces[i].seed),
                                 YOf(KeptTraces[i].seed))
          /\ bitmap[KeptTraces[i].seed] = 1
    /\ \A i, j \in 1..Len(contours) :
          i < j => PointIdx(contours[i][1]) < PointIdx(contours[j][1])
    /\ \A k \in 1..Len(traces) :
          \A j \in 1..(k - 1) :
              Pt(XOf(traces[k].seed), YOf(traces[k].seed))
                  \notin Range(traces[j].points)

\* Witness of C6: findContours has returned two contours and dropped a
\* trace in between or around them.
C6_Witness ==
    /\ pc = "done"
    /\ Len(contours) >= 2
    /\ Len(traces) > Len(contours)


\* ------------------------------------------------------------------------
\* Properties of simplifyContour
\* ------------------------------------------------------------------------

\* The elements of c at the positions K from position i on, in order.
RECURSIVE PickFrom(_, _, _)
PickFrom(c, K, i) ==
    IF i > Len(c) THEN <<>>
    ELSE (IF i \in K THEN <<c[i]>> ELSE <<>>) \o PickFrom(c, K, i + 1)

\* The elements of c at the positions K, in order.
Pick(c, K) == PickFrom(c, K, 1)

\* The squared distance d is at most the tolerance tol2 / 2.
WithinTolerance(d, tol2) == 4 * d.num <= tol2 * tol2 * d.den

\* K are positions of c that out keeps: out is c at K, the first and the
\* last position are kept, and every position dropped lies within the
\* tolerance of the segment between the kept positions around it.
KeepsWithin(c, out, K, tol2) ==
    /\ 1 \in K
    /\ Len(c) \in K
    /\ out = Pick(c, K)
    /\ \A i \in (1..Len(c)) \ K :
          LET lo == CHOOSE k \in K :
                        k < i /\ \A m \in K : m < i => m <= k
              hi == CHOOSE k \in K :
                        k > i /\ \A m \in K : m > i => m >= k
          IN  WithinTolerance(pointLineDistance(c[i], c[lo], c[hi]), tol2)

\* C7: simplifying with tolerance 0 is the identity: simplifyContour(c, 0)
\* returns c, and with the path-optimization setting 0 the advanced
\* conversion generates its paths from the unchanged contours.
C7_ToleranceZeroIdentity ==
    /\ (sCall = "simplifyContour" /\ sTol2 = 0) => sResult = sContour
    /\ (method = "advanced" /\ options.pathOptimization = 0)
           => optimized = contours

\* C8: simplification is monotone in the tolerance: the result for the
\* tolerance t has at most as many points as the result for any t' <= t.
C8_MonotoneInTolerance ==
    sCall = "simplifyContour" =>
        \A t \in 0..sTol2 :
            Len(sResult) <= Len(simplifyContour(sContour, t))

\* Witness of C8: a smaller tolerance keeps strictly more points, and the
\* larger one still splits the contour.
C8_Witness ==
    /\ sCall = "simplifyContour"
    /\ Len(sResult) >= 3
    /\ \E t \in 0..sTol2 :
          Len(simplifyContour(sContour, t)) > Len(sResult)

\* C9: simplifyContour returns a subsequence of its input that keeps the
\* first and the last point, and every removed point lies within the
\* tolerance of the output segment that spans it.
C9_SubsequenceWithinTolerance ==
    sCall = "simplifyContour" =>
        /\ Len(sResult) <= Len(sContour)
        /\ \E K \in SUBSET (1..Len(sContour)) :
              KeepsWithin(sContour, sResult, K, sTol2)

\* Witness of C9: a positive tolerance, a split, and a removed point that
\* is off the segment spanning it.
C9_Witness ==
    /\ sCall = "simplifyContour"
    /\ sTol2 > 0
    /\ Len(sResult) >= 3
    /\ Len(sResult) < Len(sContour)
    /\ ~(\E K \in SUBSET (1..Len(sContour)) :
            KeepsWithin(sContour, sResult, K, 0))

\* ------------------------------------------------------------------------
\* Properties of the generated paths
\* ------------------------------------------------------------------------

\* The closed straight-line polygon through the points of c: a move-to,
\* line-to commands through the other points in order, and a close.
StraightPolygon(c) ==
    <<Cmd("M", <<c[1]>>)>>
    \o [i \in 1..(Len(c) - 1) |-> Cmd("L", <<c[i + 1]>>)]
    \o <<Cmd("Z", <<>>)>>

\* C10: with smoothing strength 0 both the simple and the advanced
\* conversion emit the straight-line polygon of each contour: a move-to,
\* line-to commands through its points in order and a close, with no
\* quadratic or cubic curve command.
C10_StrengthZeroStraightLines ==
    (pc = "converted" /\ options.cornerSmoothing = 0) =>
        \A k \in 1..Len(paths) :
            /\ paths[k] = StraightPolygon(optimized[k])
            /\ \A j \in 1..Len(paths[k]) :
                  paths[k][j].cmd \in {"M", "L", "Z"}

\* C11: every path emitted for a retained contour, by the simple conversion
\* (contourToSvgPath) and by the advanced one (generateSmoothPath), for every
\* smoothing strength, starts with a move-to at the first point of the
\* contour and ends with an explicit close command.
C11_PathStartsAndCloses ==
    pc = "converted" =>
        \A k \in 1..Len(paths) :
            /\ Len(paths[k]) >= 2
            /\ paths[k][1] = Cmd("M", <<contours[k][1]>>)
            /\ paths[k][Len(paths[k])] = Cmd("Z", <<>>)

\* The vertices of a straight-line path: the end points of its move-to and
\* line-to commands, in order.
PathPoints(path) ==
    LET drawn == SelectSeq(path, LAMBDA s : s.cmd \in {"M", "L"})
    IN  [j \in 1..Len(drawn) |-> drawn[j].pts[1]]

\* The corner points of a closed straight-line path: the vertices at which
\* the polygon changes direction.
CornerPoints(path) ==
    LET q == PathPoints(path)
        n == Len(q)
    IN  {q[j] : j \in {i \in 1..n :
            LET a == q[((i + n - 2) % n) + 1]
                b == q[i]
                c == q[(i % n) + 1]
            IN  (b.x - a.x) * (c.y - b.y) # (b.y - a.y) * (c.x - b.x)}}

\* The four corner pixels of the bounding rectangle of the foreground.
RectangleCorners ==
    LET xs == {XOf(i) : i \in Foreground}
        ys == {YOf(i) : i \in Foreground}
        x0 == CHOOSE v \in xs : \A u \in xs : v <= u
        x1 == CHOOSE v \in xs : \A u \in xs : v >= u
        y0 == CHOOSE v \in ys : \A u \in ys : v <= u
        y1 == CHOOSE v \in ys : \A u \in ys : v >= u
    IN  {Pt(x0, y0), Pt(x1, y0), Pt(x1, y1), Pt(x0, y1)}

\* C12: for a bitmap whose foreground is one filled W x H rectangle with
\* W, H >= 2, tracing it with findContours, simplifying each contour with
\* tolerance 0 and smoothing it with strength 0 yields a path, and the
\* corner points of every path so obtained are the four corner pixels of
\* the rectangle.
C12_RectangleRoundTrip ==
    (pc = "done" /\ IsFilledRectangle) =>
        /\ Len(contours) >= 1
        /\ \A k \in 1..Len(contours) :
              CornerPoints(contourToSvgPath(simplifyContour(contours[k], 0),
                                            0))
                  = RectangleCorners

\* C25: in advanced mode the spline is a closed loop over the cyclic point
\* list: for a contour of n >= 3 points generateSmoothPath emits, after the
\* move-to at p_0, one cubic segment per edge p_i -> p_(i+1 mod n); each
\* segment starts where the one before it ended, and the last segment ends
\* at the starting point of the path.
C25_SplineClosedCycle ==
    (pc = "converted" /\ method = "advanced") =>
        \A k \in 1..Len(paths) :
            LET c == optimized[k]
                n == Len(c)
            IN  n >= 3 =>
                    /\ Len(paths[k]) = n + 1
                    /\ paths[k][1] = Cmd("M", <<c[1]>>)
                    /\ \A i \in 1..n :
                          /\ paths[k][i + 1].cmd = "C"
                          /\ paths[k][i + 1].pts[3] = c[(i % n) + 1]

\* ------------------------------------------------------------------------
\* convertFrames (svgConverter.js 14-36)
\* ------------------------------------------------------------------------

\* Math.round((i / n) * 100)
RoundedPercent(i, n) == (200 * i + n) \div (2 * n)

BatchInit ==
    /\ batchLength \in 0..MaxBatch
    /\ batchMethod \in {"simple", "advanced"}
    /\ batchIndex = 0
    /\ batchSvgFrames = <<>>
    /\ batchProgress = 0
    /\ batchCall = "none"
    /\ cancel = [requested |-> FALSE, during |-> 0]

\* convertFrames is called: the method is read and svgFrames is empty.
ConvertFramesCall ==
    /\ batchCall = "none"
    /\ batchCall' = "running"
    /\ UNCHANGED <<batchLength, batchMethod, batchIndex, batchSvgFrames,
                   batchProgress, cancel>>

\* One pass of the loop: the progress of frame i is reported, the frame is
\* converted by the method, the document is pushed and i is incremented.
\* The condition of the loop is i < frames.length and nothing else.
ConvertFrame ==
    /\ batchCall = "running"
    /\ batchIndex < batchLength
    /\ batchProgress' = RoundedPercent(batchIndex, batchLength)
    /\ batchSvgFrames' = Append(batchSvgFrames, batchIndex)
    /\ batchIndex' = batchIndex + 1
    /\ UNCHANGED <<batchLength, batchMethod, batchCall, cancel>>

\* After the loop: progress 100 and the documents returned.
ConvertFramesReturn ==
    /\ batchCall = "running"
    /\ batchIndex >= batchLength
    /\ batchProgress' = 100
    /\ batchCall' = "returned"
    /\ UNCHANGED <<batchLength, batchMethod, batchIndex, batchSvgFrames,
                   cancel>>

\* The caller asks for the batch to be cancelled while frame batchIndex is
\* in conversion. convertFrames takes the frames, the options and the
\* progress callback: it has no parameter through which the request could
\* reach it and its loop reads no flag.
RequestCancel ==
    /\ batchCall = "running"
    /\ batchIndex < batchLength
    /\ ~cancel.requested
    /\ cancel' = [requested |-> TRUE, during |-> batchIndex]
    /\ UNCHANGED <<batchLength, batchMethod, batchIndex, batchSvgFrames,
                   batchProgress, batchCall>>

\* C23: a batch conversion can be cancelled between per-frame units: once
\* cancellation is requested while frame i is being converted, no frame
\* after i is converted.
C23_CancelBetweenFrames ==
    cancel.requested =>
        \A k \in 1..Len(batchSvgFrames) : batchSvgFrames[k] <= cancel.during

\* ------------------------------------------------------------------------
\* The layout engine (src/js/spinnerGenerator.js)
\* ------------------------------------------------------------------------

\* A frame is the SVG document convertFrameSimple / convertFrameAdvanced
\* builds: its width and height (also its viewBox "0 0 width height"), the
\* number of its path elements and the bounding box of the points of their
\* contours (pixel coordinates x0..x1, y0..y1).
SvgFrame(w, h, n, box) ==
    [width |-> w, height |-> h, paths |-> n, box |-> box]

Box(x0, y0, x1, y1) == [x0 |-> x0, y0 |-> y0, x1 |-> x1, y1 |-> y1]

\* The contours of a shape that fills the four pixels of the top left
\* corner of a 3 x 3 image.
Boxes == {Box(0, 0, 1, 1)}

\* Frames of a 3 x 3 image: with no path element, or with 1..MaxPaths path
\* elements within one of the boxes.
SvgFrames ==
    {SvgFrame(3, 3, 0, Box(0, 0, 0, 0))}
    \cup {SvgFrame(3, 3, n, box) : n \in 1..MaxPaths, box \in Boxes}

\* The svgFrames argument: a missing array (null or undefined) or a list
\* of at most MaxFrames frames.
FrameLists ==
    {[present |-> FALSE, list |-> <<>>]}
    \cup {[present |-> TRUE, list |-> l] :
             l \in UNION {[1..n -> SvgFrames] : n \in 0..MaxFrames}}

\* The values of the controls getSpinnerOptions reads: diameter 50..200,
\* bearing diameter 10..30, spacing 0..20 in the page; the number inputs
\* also accept typed values outside their range.
Diameters == {50, 100}
Spacings == {5, 20}
BearingDiameters == {22}
OutlineThicknesses == {3}

\* The values of each control.
ControlValues ==
    [diameter |-> Diameters,
     frameCount |-> 1..MaxFrameCount,
     spacing |-> Spacings,
     bearingDiameter |-> BearingDiameters,
     bearingType |-> {"standard", "printable"},
     outlineThickness |-> OutlineThicknesses,
     outlineStyle |-> {"simple", "rounded", "custom"}]

LayoutSpecs ==
    [diameter : ControlValues.diameter,
     frameCount : ControlValues.frameCount,
     spacing : ControlValues.spacing,
     bearingDiameter : ControlValues.bearingDiameter,
     bearingType : ControlValues.bearingType,
     outlineThickness : ControlValues.outlineThickness,
     outlineStyle : ControlValues.outlineStyle]

\* Two of the 360 values Math.floor(Math.random() * 360) returns.
Hues == {0, 180}

\* Numbers the code computes with Math.cos, Math.sin and Math.PI are kept
\* as terms. An angle is a rational multiple num / den of pi; Trig(fn, a,
\* r2, div) is the number fn(a.num / a.den * pi) * (r2 / 2) / div.
Angle(num, den) == [num |-> num, den |-> den]

Trig(fn, a, r2, div) == [fn |-> fn, angle |-> a, r2 |-> r2, div |-> div]

\* angle * (180 / Math.PI): degrees, as the fraction num / den
Degrees(a) == [num |-> a.num * 180, den |-> a.den]

\* calculateFramePositions with the angle of placement i taken as
\* (i + 1) * angleStep.
calculateFramePositions_StartsAtStep(n, diameter, bearingDiameter, spacing) ==
    LET radius2 == (diameter - bearingDiameter) - 2 * spacing
    IN  [k \in 1..n |->
            LET angle == Angle(k * 2, n)
            IN  [x |-> Trig("cos", angle, radius2, 1),
                 y |-> Trig("sin", angle, radius2, 1),
                 angle |-> Degrees(angle),
                 scale |-> Trig("sin", Angle(1, n), 2 * radius2, 50)]]

\* calculateFramePositions with the spacing added to the radius.
calculateFramePositions_AddsSpacing(n, diameter, bearingDiameter, spacing) ==
    LET radius2 == (diameter - bearingDiameter) + 2 * spacing
    IN  [k \in 1..n |->
            LET angle == Angle((k - 1) * 2, n)
            IN  [x |-> Trig("cos", angle, radius2, 1),
                 y |-> Trig("sin", angle, radius2, 1),
                 angle |-> Degrees(angle),
                 scale |-> Trig("sin", Angle(1, n), 2 * radius2, 50)]]

\* calculateFramePositions (137-165). radius2 is twice the radius
\* (diameter - bearingDiameter) / 2 - spacing; angleStep is 2 pi / n and
\* the angle of placement i (0-based, k = i + 1) is i * angleStep.
calculateFramePositions(n, diameter, bearingDiameter, spacing) ==
    LET radius2 == (diameter - bearingDiameter) - 2 * spacing
    IN  [k \in 1..n |->
            LET angle == Angle((k - 1) * 2, n)
            IN  [x |-> Trig("cos", angle, radius2, 1),
                 y |-> Trig("sin", angle, radius2, 1),
                 angle |-> Degrees(angle),
                 scale |-> Trig("sin", Angle(1, n), 2 * radius2, 50)]]

\* A paint attribute: a named colour, or hsla(hue, 70%, lightness%, ...).
Named(colour) == [name |-> colour, hue |-> 0, lightness |-> 0]

Hsla(hue, lightness) == [name |-> "hsla", hue |-> hue, lightness |-> lightness]

\* The path elements of the clone of a frame: fill black and stroke none as
\* the converter set them, or, when painted, the hue Math.random gave for
\* each path (random[k] for path k).
ClonedPaths(frameSvg, painted, random) ==
    [k \in 1..frameSvg.paths |->
        IF painted
        THEN [fill |-> Hsla(random[k], 50), stroke |-> Hsla(random[k], 40),
              strokeWidth |-> "0.5"]
        ELSE [fill |-> Named("black"), stroke |-> Named("none"),
              strokeWidth |-> ""]]

\* createFrameElement painting the paths whether or not isPreview is set.
createFrameElement_AlwaysPaints(frameSvg, position, isPreview, random) ==
    [translate |-> <<position.x, position.y>>,
     rotate |-> position.angle,
     scale |-> position.scale,
     viewBox |-> <<0, 0, frameSvg.width, frameSvg.height>>,
     centre2 |-> <<-frameSvg.width, -frameSvg.height>>,
     paths |-> ClonedPaths(frameSvg, TRUE, random)]

\* createFrameElement (174-218): the group transform, the clone of the frame
\* with its viewBox kept, translate(-centerX, -centerY) with centerX =
\* parts[2] / 2 and centerY = parts[3] / 2 (centre2 holds twice these), and
\* in preview mode a random colour for each path.
createFrameElement(frameSvg, position, isPreview, random) ==
    [translate |-> <<position.x, position.y>>,
     rotate |-> position.angle,
     scale |-> position.scale,
     viewBox |-> <<0, 0, frameSvg.width, frameSvg.height>>,
     centre2 |-> <<-frameSvg.width, -frameSvg.height>>,
     paths |-> ClonedPaths(frameSvg, isPreview, random)]

Abs(v) == IF v < 0 THEN -v ELSE v

\* Math.sqrt(p.x * p.x + p.y * p.y), doubled: p.x and p.y are the cosine
\* and the sine of one angle times one radius r2 / 2, so the root is
\* |r2| / 2.
Norm2(p) == Abs(p.x.r2)

\* The largest of Norm2 over the positions: twice maxRadius.
MaxNorm2(positions) ==
    CHOOSE m \in {Norm2(positions[k]) : k \in 1..Len(positions)} :
        \A k \in 1..Len(positions) : Norm2(positions[k]) <= m

\* Terms for the sum and for the half of the sum of two numbers.
Plus(a, b) == [op |-> "plus", args |-> <<a, b>>]

Mid(a, b) == [op |-> "mid", args |-> <<a, b>>]

\* A command of path data: its letter and its coordinates.
PathCmd(letter, coords) == [cmd |-> letter, coords |-> coords]

\* createRoundedOutlinePath (262-302): each position pushed outward by 15
\* along the angle i * angleStep, then for each hull point a line to the
\* midpoint of it and the next one and a quadratic curve with the next one
\* as control point to the midpoint of the next two.
createRoundedOutlinePath(positions) ==
    IF Len(positions) < 3 THEN <<>>
    ELSE
      LET n == Len(positions)
          hullPoints ==
              [k \in 1..n |->
                  LET angle == Angle((k - 1) * 2, n)
                  IN  [x |-> Plus(positions[k].x, Trig("cos", angle, 30, 1)),
                       y |-> Plus(positions[k].y, Trig("sin", angle, 30, 1))]]
          After(k) == (k % n) + 1
      IN  [j \in 1..(2 * n + 2) |->
              IF j = 1
              THEN PathCmd("M", <<hullPoints[1].x, hullPoints[1].y>>)
              ELSE IF j = 2 * n + 2 THEN PathCmd("Z", <<>>)
              ELSE LET k == j \div 2
                       current == hullPoints[k]
                       next == hullPoints[After(k)]
                       next2 == hullPoints[After(After(k))]
                   IN  IF j % 2 = 0
                       THEN PathCmd("L", <<Mid(current.x, next.x),
                                           Mid(current.y, next.y)>>)
                       ELSE PathCmd("Q", <<next.x, next.y,
                                           Mid(next.x, next2.x),
                                           Mid(next.y, next2.y)>>)]

\* Math.atan2(pos.y - center.y, pos.x - center.x) as a multiple of pi in
\* (-1, 1]. center is the mean of the positions, the origin up to
\* rounding. pos is the point at the angle a = pos.x.angle on the circle
\* of radius pos.x.r2 / 2: its direction is a for a positive radius and
\* a + pi for a negative one, and a direction above pi comes back lowered
\* by 2 pi. In doubles a direction of pi itself comes back as +pi for the
\* radii and the counts up to 4 used here.
Atan2(pos) ==
    LET a == pos.x.angle
        turned == IF pos.x.r2 < 0 THEN Angle(a.num + a.den, a.den) ELSE a
        wrapped == IF turned.num >= 2 * turned.den
                   THEN Angle(turned.num - 2 * turned.den, turned.den)
                   ELSE turned
    IN  IF wrapped.num > wrapped.den
        THEN Angle(wrapped.num - 2 * wrapped.den, wrapped.den)
        ELSE wrapped

\* createCustomOutlinePath (309-361): the star. For each position the
\* padded point pos + (cos angle, sin angle) * padding with padding =
\* maxRadius * 0.3, then the point at midAngle = (angle + nextAngle) / 2 at
\* the distance maxRadius * 0.6 from the centre.
createCustomOutlinePath(positions) ==
    IF Len(positions) < 3 THEN <<>>
    ELSE
      LET n == Len(positions)
          maxRadius2 == MaxNorm2(positions)
      IN  [j \in 1..(2 * n + 1) |->
              IF j = 2 * n + 1 THEN PathCmd("Z", <<>>)
              ELSE LET k == (j + 1) \div 2
                       pos == positions[k]
                       angle == Atan2(pos)
                       nextPos == positions[(k % n) + 1]
                       nextAngle == Atan2(nextPos)
                       midAngle == Angle(angle.num + nextAngle.num,
                                         2 * angle.den)
                   IN  IF j % 2 = 1
                       THEN PathCmd(IF k = 1 THEN "M" ELSE "L",
                                <<Plus(pos.x, Trig("cos", angle,
                                                   3 * maxRadius2, 10)),
                                  Plus(pos.y, Trig("sin", angle,
                                                   3 * maxRadius2, 10))>>)
                       ELSE PathCmd("L",
                                <<Trig("cos", midAngle, 6 * maxRadius2, 10),
                                  Trig("sin", midAngle, 6 * maxRadius2, 10)>>)]

\* createSpinnerOutline choosing the circle only by the style.
createSpinnerOutline_StyleOnly(positions, thickness, style) ==
    IF style = "simple"
    THEN [shape |-> "circle",
          radius2 |-> MaxNorm2(positions) + 20,
          path |-> <<>>,
          strokeWidth |-> thickness]
    ELSE [shape |-> IF style = "rounded" THEN "rounded" ELSE "custom",
          radius2 |-> 0,
          path |-> IF style = "rounded"
                   THEN createRoundedOutlinePath(positions)
                   ELSE createCustomOutlinePath(positions),
          strokeWidth |-> thickness]

\* createSpinnerOutline (227-255). The simple outline, and every outline
\* of fewer than three positions, is the circle of radius maxRadius + 10
\* (radius2 is twice it); the other two are the paths
\* createRoundedOutlinePath and createCustomOutlinePath compute.
createSpinnerOutline(positions, thickness, style) ==
    IF style = "simple" \/ Len(positions) < 3
    THEN [shape |-> "circle",
          radius2 |-> MaxNorm2(positions) + 20,
          path |-> <<>>,
          strokeWidth |-> thickness]
    ELSE [shape |-> IF style = "rounded" THEN "rounded" ELSE "custom",
          radius2 |-> 0,
          path |-> IF style = "rounded"
                   THEN createRoundedOutlinePath(positions)
                   ELSE createCustomOutlinePath(positions),
          strokeWidth |-> thickness]

\* createBearing (369-467): circles whose radii are fixed fractions of the
\* bearing diameter, chosen by the bearing type.
createBearing(diameter, type) ==
    [diameter |-> diameter,
     rings |-> IF type = "standard" THEN "standard" ELSE "printable"]

\* createEmptySvg (476-502)
createEmptySvg(w, h, message) ==
    [kind |-> "empty", width |-> w, height |-> h, message |-> message]

\* generateSpinnerSvg with the slots after the last frame all filled with
\* the last frame.
generateSpinnerSvg_RepeatsLast(frames, opts, isPreview, random) ==
    LET framePositions ==
            calculateFramePositions(opts.frameCount, opts.diameter,
                                    opts.bearingDiameter, opts.spacing)
    IN  [kind |-> "spinner",
         width |-> opts.diameter,
         height |-> opts.diameter,
         background |-> isPreview,
         frames |-> [k \in 1..opts.frameCount |->
                        createFrameElement(
                            frames[IF k < Len(frames) THEN k
                                   ELSE Len(frames)],
                            framePositions[k], isPreview, random[k])],
         outline |-> createSpinnerOutline(framePositions,
                                          opts.outlineThickness,
                                          opts.outlineStyle),
         bearing |-> createBearing(opts.bearingDiameter, opts.bearingType)]

\* generateSpinnerSvg (66-127). getSpinnerOptions always supplies the seven
\* options, so the defaults of the destructuring are not used. random[k] is
\* what Math.random returns for the paths of frame element k.
generateSpinnerSvg(frames, opts, isPreview, random) ==
    LET framePositions ==
            calculateFramePositions(opts.frameCount, opts.diameter,
                                    opts.bearingDiameter, opts.spacing)
    IN  [kind |-> "spinner",
         width |-> opts.diameter,
         height |-> opts.diameter,
         background |-> isPreview,
         frames |-> [k \in 1..opts.frameCount |->
                        createFrameElement(
                            frames[((k - 1) % Len(frames)) + 1],
                            framePositions[k], isPreview, random[k])],
         outline |-> createSpinnerOutline(framePositions,
                                          opts.outlineThickness,
                                          opts.outlineStyle),
         bearing |-> createBearing(opts.bearingDiameter, opts.bearingType)]

\* What Math.random returns during one call: a hue for each path of each
\* of the n frame elements.
Randoms(n) == [1..n -> [1..MaxPaths -> Hues]]

\* !svgFrames || svgFrames.length === 0
NoFrames(frames) == ~frames.present \/ Len(frames.list) = 0

Error(message) == [kind |-> "error", message |-> message]

\* generatePreview failing with an error when there are no frames.
generatePreview_Throws(frames, opts, random) ==
    IF NoFrames(frames)
    THEN Error("No frames available")
    ELSE generateSpinnerSvg(frames.list, opts, TRUE, random)

\* generatePreview (13-20)
generatePreview(frames, opts, random) ==
    IF NoFrames(frames)
    THEN createEmptySvg(300, 300, "No frames available")
    ELSE generateSpinnerSvg(frames.list, opts, TRUE, random)

LayoutInit ==
    /\ svgFrames \in FrameLists
    /\ layoutOptions \in LayoutSpecs
    /\ layoutCall = "none"
    /\ layoutResult = [status |-> "none", value |-> [kind |-> "none"]]
    /\ layoutProgress = 0
    /\ layoutCalls = 0

\* The value generatePreview returns.
PreviewReturns ==
    /\ \E random \in Randoms(layoutOptions.frameCount) :
          layoutResult' =
              [status |-> "returned",
               value |-> generatePreview(svgFrames, layoutOptions, random)]
    /\ layoutCall' = "generatePreview"
    /\ layoutCalls' = layoutCalls + 1
    /\ UNCHANGED <<svgFrames, layoutOptions, layoutProgress>>

\* generateSpinner (29-57) up to the return of the promise: the promise is
\* rejected when there are no frames; otherwise progress 10 is reported,
\* the design built and the four timers set.
SpinnerStarts ==
    /\ IF NoFrames(svgFrames)
       THEN /\ layoutResult' = [status |-> "rejected",
                                value |-> Error("No frames available")]
            /\ layoutCalls' = layoutCalls + 1
            /\ UNCHANGED layoutProgress
       ELSE /\ \E random \in Randoms(layoutOptions.frameCount) :
                  layoutResult' =
                      [status |-> "pending",
                       value |-> generateSpinnerSvg(svgFrames.list,
                                     layoutOptions, FALSE, random)]
            /\ layoutProgress' = 10
            /\ UNCHANGED layoutCalls
    /\ layoutCall' = "generateSpinner"
    /\ UNCHANGED <<svgFrames, layoutOptions>>

GeneratePreview ==
    /\ layoutCall = "none"
    /\ PreviewReturns

GenerateSpinner ==
    /\ layoutCall = "none"
    /\ SpinnerStarts

\* The timers of 200, 400 and 600 ms: progress 40, 70 and 90.
GenerateSpinnerProgress ==
    /\ layoutResult.status = "pending"
    /\ layoutProgress \in {10, 40, 70}
    /\ layoutProgress' = CASE layoutProgress = 10 -> 40
                           [] layoutProgress = 40 -> 70
                           [] OTHER -> 90
    /\ UNCHANGED <<svgFrames, layoutOptions, layoutCall, layoutResult,
                   layoutCalls>>

\* The timer of 800 ms: progress 100 and the promise resolved with the
\* design.
GenerateSpinnerResolve ==
    /\ layoutResult.status = "pending"
    /\ layoutProgress = 90
    /\ layoutProgress' = 100
    /\ layoutResult' = [layoutResult EXCEPT !.status = "resolved"]
    /\ layoutCalls' = layoutCalls + 1
    /\ UNCHANGED <<svgFrames, layoutOptions, layoutCall>>

\* The same entry point called once more on the same frames and options,
\* at most MaxCalls calls in all.
GeneratePreviewAgain ==
    /\ layoutCall = "generatePreview"
    /\ layoutCalls < MaxCalls
    /\ PreviewReturns

GenerateSpinnerAgain ==
    /\ layoutCall = "generateSpinner"
    /\ layoutResult.status \in {"resolved", "rejected"}
    /\ layoutCalls < MaxCalls
    /\ SpinnerStarts

\* ------------------------------------------------------------------------
\* Properties of the layout engine
\* ------------------------------------------------------------------------

\* Twice the placement radius (diameter - bearingDiameter) / 2 - spacing.
PlacementRadius2(opts) ==
    opts.diameter - opts.bearingDiameter - 2 * opts.spacing

\* An entry point was called and what it returned, or the promise it
\* returned holds, is a spinner design.
HasDesign == layoutResult.value.kind = "spinner"

\* C13: for every LayoutSpec whose placement radius
\* (diameter - bearingDiameter) / 2 - spacing is not positive, layout
\* generation on a non-empty frame list fails with an error and returns no
\* design.
C13_InfeasibleFails ==
    (layoutCall # "none" /\ ~NoFrames(svgFrames)
     /\ PlacementRadius2(layoutOptions) <= 0) =>
        /\ layoutResult.status = "rejected"
        /\ layoutResult.value.kind = "error"

Unpainted(svg) ==
    [svg EXCEPT !.frames =
        [k \in 1..Len(svg.frames) |->
            [svg.frames[k] EXCEPT !.paths =
                [j \in 1..Len(svg.frames[k].paths) |-> "path"]]]]

OnCircleAt(t, deg, r2) ==
    /\ t[1].fn = "cos" /\ t[2].fn = "sin"
    /\ t[1].angle = t[2].angle
    /\ t[1].angle.num * 180 * deg.den = deg.num * t[1].angle.den
    /\ t[1].r2 = r2 /\ t[2].r2 = r2
    /\ t[1].div = 1 /\ t[2].div = 1

\* C19: for frameCount N >= 1 the layout computes exactly N placements;
\* placement i (0-based) has the angle i * 360 / N degrees, and its
\* position is the point at that angle on the placement circle.
C19_PlacementAngles ==
    HasDesign =>
        LET N == layoutOptions.frameCount
            placed == layoutResult.value.frames
        IN  /\ Len(placed) = N
            /\ \A k \in 1..Len(placed) :
                  /\ placed[k].rotate.num * N
                         = (k - 1) * 360 * placed[k].rotate.den
                  /\ OnCircleAt(placed[k].translate, placed[k].rotate,
                                PlacementRadius2(layoutOptions))

C19_Witness ==
    /\ HasDesign
    /\ layoutOptions.frameCount = 3
    /\ layoutResult.value.frames[2].rotate = [num |-> 360, den |-> 3]

\* Twice the distance of the translation t from the centre:
\* (cos a * r)^2 + (sin a * r)^2 = r^2.
Distance2(t) ==
    IF /\ t[1].fn = "cos" /\ t[2].fn = "sin"
       /\ t[1].angle = t[2].angle
       /\ t[1].r2 = t[2].r2
       /\ t[1].div = 1 /\ t[2].div = 1
    THEN Abs(t[1].r2)
    ELSE -1

\* C20: for every LayoutSpec with a positive placement radius, all N
\* placements lie at the same distance from the centre, and that distance
\* is (diameter - bearingDiameter) / 2 - spacing.
C20_EqualDistance ==
    (HasDesign /\ PlacementRadius2(layoutOptions) > 0) =>
        \A k \in 1..Len(layoutResult.value.frames) :
            Distance2(layoutResult.value.frames[k].translate)
                = PlacementRadius2(layoutOptions)

\* diameter 100, bearing diameter 22, spacing 5: every placement at 34.
C20_Witness ==
    /\ HasDesign
    /\ layoutOptions.diameter = 100
    /\ layoutOptions.bearingDiameter = 22
    /\ layoutOptions.spacing = 5
    /\ layoutOptions.frameCount = 3
    /\ \A k \in 1..3 :
          Distance2(layoutResult.value.frames[k].translate) = 2 * 34

\* The frame element placed is a copy of the frame source: the same viewBox
\* and as many path elements.
CopyOf(placed, source) ==
    /\ placed.viewBox = <<0, 0, source.width, source.height>>
    /\ Len(placed.paths) = source.paths

\* C21: for every frameCount N and every non-empty frame list of length L,
\* the design holds exactly N placed frame copies and slot i (0 <= i < N)
\* holds a copy of source frame i mod L, whether N < L, N = L or N > L.
C21_FramesCycle ==
    HasDesign =>
        LET N == layoutOptions.frameCount
            L == Len(svgFrames.list)
            placed == layoutResult.value.frames
        IN  /\ Len(placed) = N
            /\ \A i \in 0..(N - 1) :
                  CopyOf(placed[i + 1], svgFrames.list[(i % L) + 1])

\* Three slots over two different frames: the third slot holds the first
\* frame again.
C21_Witness ==
    /\ HasDesign
    /\ layoutOptions.frameCount = 3
    /\ Len(svgFrames.list) = 2
    /\ svgFrames.list[1] # svgFrames.list[2]
    /\ CopyOf(layoutResult.value.frames[3], svgFrames.list[1])
    /\ ~CopyOf(layoutResult.value.frames[3], svgFrames.list[2])

\* C26: each placed frame is re-centred on the bounding box of its own
\* shape before rotation and translation: the centring offset of a frame
\* copy is minus the centre of the bounding box of the contours of its
\* frame (centre2 holds twice the offset).
C26_CentredOnBoundingBox ==
    HasDesign =>
        LET L == Len(svgFrames.list)
            placed == layoutResult.value.frames
        IN  \A k \in 1..Len(placed) :
                LET source == svgFrames.list[((k - 1) % L) + 1]
                IN  source.paths > 0 =>
                        placed[k].centre2 =
                            <<-(source.box.x0 + source.box.x1),
                              -(source.box.y0 + source.box.y1)>>

\* C22: for every frameCount < 3 and every requested outline style (simple,
\* rounded, custom) the outline is the plain circle whose radius is the
\* largest distance of a placement from the centre plus the fixed padding
\* of 10.
C22_FewFramesCircle ==
    (HasDesign /\ layoutOptions.frameCount < 3) =>
        LET outline == layoutResult.value.outline
        IN  /\ outline.shape = "circle"
            /\ outline.path = <<>>
            /\ \A k \in 1..Len(layoutResult.value.frames) :
                  Distance2(layoutResult.value.frames[k].translate) + 20
                      <= outline.radius2
            /\ \E k \in 1..Len(layoutResult.value.frames) :
                  Distance2(layoutResult.value.frames[k].translate) + 20
                      = outline.radius2

\* Two placements and the custom style: the circle of radius 34 + 10.
C22_Witness ==
    /\ HasDesign
    /\ layoutOptions.frameCount = 2
    /\ layoutOptions.outlineStyle = "custom"
    /\ PlacementRadius2(layoutOptions) = 68
    /\ layoutResult.value.outline.shape = "circle"
    /\ layoutResult.value.outline.radius2 = 88

\* The waist point after placement i (0-based) of the custom outline: the
\* line-to command that follows the padded point of placement i.
WaistPoint(outline, i) == outline.path[2 * i + 2].coords

\* The point pt is at the angle num / den * pi (up to whole turns) on the
\* circle of radius r20 / 20 around the centre.
AtAngle(pt, num, den, r20) ==
    /\ pt[1].fn = "cos" /\ pt[2].fn = "sin"
    /\ pt[1].angle = pt[2].angle
    /\ (pt[1].angle.num * den - num * pt[1].angle.den)
           % (2 * den * pt[1].angle.den) = 0
    /\ pt[1].r2 = r20 /\ pt[2].r2 = r20
    /\ pt[1].div = 10 /\ pt[2].div = 10

\* C24: in the custom (hull-like) outline of N >= 3 placements, the waist
\* point after slot i lies at the angular midpoint of slot i and slot
\* (i + 1) mod N, the angle (2 i + 1) * 180 / N degrees inside the arc
\* between them, at a radius shorter than the placement radius.
C24_WaistAtMidpoint ==
    (/\ HasDesign
     /\ layoutOptions.frameCount >= 3
     /\ layoutOptions.outlineStyle = "custom"
     /\ PlacementRadius2(layoutOptions) > 0) =>
        LET N == layoutOptions.frameCount
            outline == layoutResult.value.outline
        IN  \A i \in 0..(N - 1) :
                \E r20 \in 1..(10 * PlacementRadius2(layoutOptions) - 1) :
                    AtAngle(WaistPoint(outline, i), 2 * i + 1, N, r20)

\* ------------------------------------------------------------------------
\* preprocessBitmap (112-140), preprocessBitmapAdvanced (148-204)
\* ------------------------------------------------------------------------

\* Pixels: the red, green and blue values tried (black, a grey, white, red
\* and blue) and the alpha values tried.
Colours == {<<0, 0, 0>>, <<100, 100, 100>>, <<255, 255, 255>>,
            <<255, 0, 0>>, <<0, 0, 255>>}
Alphas == {0, 1, 255}

Pixels == {[r |-> c[1], g |-> c[2], b |-> c[3], a |-> al] :
              c \in Colours, al \in Alphas}

\* ImageData of at most MaxPixels pixels; data[y * width + x + 1] is the
\* pixel at (x, y).
Images ==
    UNION {UNION {{[width |-> w, height |-> h, data |-> d] :
                      d \in [1..(w * h) -> Pixels]} :
                  h \in 1..(MaxPixels \div w)} :
           w \in 1..MaxPixels}

\* The threshold slider goes from 0 to 255, the detail level slider from 1
\* to 10.
Thresholds == {0, 100, 101, 255}
DetailLevels == 1..10

PreOptionValues == [threshold : Thresholds, detailLevel : DetailLevels]

\* options.threshold || 128 and options.detailLevel || 5
DefaultThreshold == 128
DefaultDetailLevel == 5

\* 0.299 * r + 0.587 * g + 0.114 * b, in thousandths. For the colours of
\* Colours the double the code computes compares with an integer threshold
\* as this exact value does.
Luminance1000(p) == 299 * p.r + 587 * p.g + 114 * p.b

preprocessBitmap(img, opts) ==
    LET threshold == OrDefault(opts.threshold, DefaultThreshold)
    IN  [i \in 1..(img.width * img.height) |->
            IF img.data[i].a = 0 THEN 0
            ELSE IF Luminance1000(img.data[i]) < 1000 * threshold THEN 1
            ELSE 0]

\* Step 1 with a fully transparent pixel left at the initial 0 of the
\* Uint8Array.
Grayscale_TransparentZero(p) ==
    IF p.a = 0 THEN 0 ELSE (Luminance1000(p) + 500) \div 1000

\* Step 1 of preprocessBitmapAdvanced: 255 for a fully transparent pixel,
\* Math.round of the luminance for the others.
Grayscale(p) ==
    IF p.a = 0 THEN 255 ELSE (Luminance1000(p) + 500) \div 1000

RECURSIVE SumOf(_, _)
SumOf(g, S) ==
    IF S = {} THEN 0
    ELSE LET i == CHOOSE j \in S : TRUE
         IN  g[i] + SumOf(g, S \ {i})

\* Step 2: pixel < localAvg - (10 - detailLevel), with localAvg = sum /
\* count over the pixels of the image within blockSize = 11 - detailLevel of
\* the pixel in x and in y; both sides are multiplied by count.
preprocessBitmapAdvanced(img, opts) ==
    LET detailLevel == OrDefault(opts.detailLevel, DefaultDetailLevel)
        blockSize == 11 - detailLevel
        n == img.width * img.height
        grayscale == [i \in 1..n |-> Grayscale(img.data[i])]
        Near(i) == {j \in 1..n :
                       /\ Abs(((j - 1) % img.width) - ((i - 1) % img.width))
                              <= blockSize
                       /\ Abs(((j - 1) \div img.width)
                              - ((i - 1) \div img.width)) <= blockSize}
    IN  [i \in 1..n |->
            IF grayscale[i] * Cardinality(Near(i))
                   < SumOf(grayscale, Near(i))
                     - (10 - detailLevel) * Cardinality(Near(i))
            THEN 1 ELSE 0]

PreprocessInit ==
    /\ imageData \in Images
    /\ preOptions = [threshold |-> 0, detailLevel |-> 1]
    /\ preCall = "none"
    /\ preBitmap = <<>>

\* convertFrameSimple calls preprocessBitmap(imageData, options)
PreprocessBitmap ==
    /\ preCall = "none"
    /\ \E opts \in PreOptionValues :
          /\ preOptions' = opts
          /\ preBitmap' = preprocessBitmap(imageData, opts)
    /\ preCall' = "preprocessBitmap"
    /\ UNCHANGED imageData

\* convertFrameAdvanced calls preprocessBitmapAdvanced(imageData, options)
PreprocessBitmapAdvanced ==
    /\ preCall = "none"
    /\ \E opts \in PreOptionValues :
          /\ preOptions' = opts
          /\ preBitmap' = preprocessBitmapAdvanced(imageData, opts)
    /\ preCall' = "preprocessBitmapAdvanced"
    /\ UNCHANGED imageData

\* C17: in simple mode, for every threshold in 0..255 and every pixel whose
\* alpha is not 0, preprocessBitmap marks the pixel foreground exactly when
\* its luminance 0.299 R + 0.587 G + 0.114 B is less than the threshold.
C17_LuminanceThreshold ==
    preCall = "preprocessBitmap" =>
        \A i \in 1..Len(preBitmap) :
            imageData.data[i].a # 0 =>
                (preBitmap[i] = 1 <=>
                    Luminance1000(imageData.data[i])
                        < 1000 * preOptions.threshold)

\* C18: a pixel with alpha 0 is background whatever its colour and its
\* neighbours, in simple mode for every threshold and in adaptive mode for
\* every detail level 1..10.
C18_TransparentIsBackground ==
    preCall # "none" =>
        \A i \in 1..Len(preBitmap) :
            imageData.data[i].a = 0 => preBitmap[i] = 0

\* Adaptive mode at detail level 10 on a transparent black pixel next to an
\* opaque white one.
C18_Witness ==
    /\ preCall = "preprocessBitmapAdvanced"
    /\ preOptions.detailLevel = 10
    /\ Len(preBitmap) = 2
    /\ imageData.data[1] = [r |-> 0, g |-> 0, b |-> 0, a |-> 0]
    /\ imageData.data[2] = [r |-> 255, g |-> 255, b |-> 255, a |-> 255]
    /\ preBitmap[1] = 0

\* ------------------------------------------------------------------------
\* The page (src/js/main.js)
\* ------------------------------------------------------------------------

NoSvg == [kind |-> "none"]

\* No asynchronous handler of the page is waiting.
NoCall == [name |-> "none", svg |-> NoSvg]

\* getSpinnerOptions (338-348): parseInt of the number and range inputs and
\* the value of the two selects.
getSpinnerOptions == controls

\* Non-empty lists of converted frames, one for each frame of the GIF.
ProcessedFrameLists ==
    UNION {[1..n -> SvgFrames] : n \in 1..MaxFrames}

\* The content of the preview container: the frames and options the
\* preview was generated from (the random colours of a preview are not
\* kept here).
PreviewOf(frames, opts) == [shown |-> TRUE, frames |-> frames, opts |-> opts]

\* updateSpinnerPreview (284-303), as the content of the preview container
\* after it ran on the given frames and options.
updateSpinnerPreview(frames, opts) ==
    IF Len(frames) = 0 THEN spinnerPreview ELSE PreviewOf(frames, opts)

\* A GIF has been selected and loaded: the conversion options are shown.
PageInit ==
    /\ controls \in LayoutSpecs
    /\ processedFrames = <<>>
    /\ spinnerPreview = [shown |-> FALSE, frames |-> <<>>,
                         opts |-> controls]
    /\ spinnerSvg = NoSvg
    /\ pageCall = NoCall
    /\ handedToExporter = NoSvg
    /\ currentStep = 2

\* processGifFrames (245-282): the frames are converted, the design section
\* is shown and the preview generated.
ProcessGifFrames ==
    /\ pageCall = NoCall
    /\ \E frames \in ProcessedFrameLists :
          /\ processedFrames' = frames
          /\ spinnerPreview' = updateSpinnerPreview(frames, getSpinnerOptions)
    /\ currentStep' = 3
    /\ UNCHANGED <<controls, spinnerSvg, pageCall, handedToExporter>>

\* A 'change' or 'input' event of one of the seven spinner controls, which
\* are in the design section: the control has a new value and
\* updateSpinnerPreview runs.
ChangeSpinnerControl ==
    /\ pageCall = NoCall
    /\ currentStep >= 3
    /\ \E field \in DOMAIN ControlValues :
          \E value \in ControlValues[field] \ {controls[field]} :
              /\ controls' = [controls EXCEPT ![field] = value]
              /\ spinnerPreview' =
                     updateSpinnerPreview(processedFrames, controls')
    /\ UNCHANGED <<processedFrames, spinnerSvg, pageCall, handedToExporter,
                   currentStep>>

\* generateSpinner (305-336) up to its await: the options are read and
\* SpinnerGenerator.generateSpinner builds the design; the overlay covers
\* the page until the promise resolves.
GenerateSpinnerClick ==
    /\ pageCall = NoCall
    /\ currentStep >= 3
    /\ Len(processedFrames) # 0
    /\ \E random \in Randoms(controls.frameCount) :
          pageCall' = [name |-> "generateSpinner",
                       svg |-> generateSpinnerSvg(processedFrames,
                                   getSpinnerOptions, FALSE, random)]
    /\ UNCHANGED <<controls, processedFrames, spinnerPreview, spinnerSvg,
                   handedToExporter, currentStep>>

\* generateSpinner after its await: the design is stored and the output
\* section shown.
GenerateSpinnerDone ==
    /\ pageCall.name = "generateSpinner"
    /\ spinnerSvg' = pageCall.svg
    /\ currentStep' = 4
    /\ pageCall' = NoCall
    /\ UNCHANGED <<controls, processedFrames, spinnerPreview,
                   handedToExporter>>

\* exportFiles (373-401) up to its await: the stored design is handed to
\* Exporters.exportFiles.
ExportFiles ==
    /\ pageCall = NoCall
    /\ currentStep >= 4
    /\ spinnerSvg # NoSvg
    /\ handedToExporter' = spinnerSvg
    /\ pageCall' = [name |-> "exportFiles", svg |-> spinnerSvg]
    /\ UNCHANGED <<controls, processedFrames, spinnerPreview, spinnerSvg,
                   currentStep>>

\* exportFiles after its await: the export is over.
ExportFilesDone ==
    /\ pageCall.name = "exportFiles"
    /\ handedToExporter' = NoSvg
    /\ pageCall' = NoCall
    /\ UNCHANGED <<controls, processedFrames, spinnerPreview, spinnerSvg,
                   currentStep>>

\* The design generateSpinnerSvg builds in final mode, which draws no
\* random number.
FinalDesign(frames, opts) ==
    generateSpinnerSvg(frames, opts, FALSE,
                       [k \in 1..opts.frameCount |->
                           [j \in 1..MaxPaths |-> 0]])

\* C15: after any sequence of page events (a change of a LayoutSpec
\* control, re-processing of the frames, generating, exporting), the design
\* handed to the exporter is the design of the current values of the
\* LayoutSpec controls and of the current processed frames.
C15_ExportIsCurrent ==
    handedToExporter # NoSvg =>
        handedToExporter = FinalDesign(processedFrames, controls)

\* ------------------------------------------------------------------------
\* The wizard (src/js/main.js): selecting a GIF, the sections, the overlay
\* ------------------------------------------------------------------------

\* The src of a sample image and the data URL of an uploaded file.
Samples == {"assets/samples/walking.gif"}
Uploads == {"data:image/gif;base64"}

\* The page variables the wizard handlers modelled here leave alone.
pageRest == <<controls, processedFrames, spinnerPreview, spinnerSvg,
              pageCall, handedToExporter>>

\* showProcessingOverlay (418-426) and hideProcessingOverlay (428-431) on
\* the classes of the elements.
showProcessingOverlay(h) == [h EXCEPT !.processingOverlay = FALSE]

hideProcessingOverlay(h) == [h EXCEPT !.processingOverlay = TRUE]

\* updateUIState (404-416): hidden is added to the sections beyond step and
\* removed from none.
updateUIState(h, step) ==
    [h EXCEPT !.conversionOptions = IF step < 2 THEN TRUE ELSE @,
              !.spinnerDesign = IF step < 3 THEN TRUE ELSE @,
              !.outputOptions = IF step < 4 THEN TRUE ELSE @]

\* The sequence s without its element at index i.
Without(s, i) == [k \in 1..(Len(s) - 1) |-> IF k < i THEN s[k] ELSE s[k + 1]]

\* The user reaches a control of the page: the overlay, while shown, is
\* taken to cover the page, so that the handlers below run in no more
\* interleavings than the page allows.
CanClick == hidden.processingOverlay

\* After initApp (80-89): nothing selected, step 1, the sections and the
\* overlay hidden.
WizardInit ==
    /\ controls = CHOOSE opts \in LayoutSpecs : TRUE
    /\ processedFrames = <<>>
    /\ spinnerPreview = [shown |-> FALSE, frames |-> <<>>,
                         opts |-> controls]
    /\ spinnerSvg = NoSvg
    /\ pageCall = NoCall
    /\ handedToExporter = NoSvg
    /\ currentStep = 1
    /\ reads = {}
    /\ loads = <<>>
    /\ selections = <<>>
    /\ awaited = [convertFrames |-> 0, generateSpinner |-> 0,
                  exportFiles |-> 0]
    /\ clicks = 0
    /\ loadFailed = FALSE
    /\ selectedGif = "null"
    /\ gifFrames = "none"
    /\ hasProcessedFrames = FALSE
    /\ hasSpinnerSvg = FALSE
    /\ inProgress = FALSE
    /\ hidden = updateUIState(
                    [conversionOptions |-> TRUE, spinnerDesign |-> TRUE,
                     outputOptions |-> TRUE, processingOverlay |-> TRUE],
                    1)

\* handleGifUpload (154-163): a FileReader starts to read the file; the
\* overlay is not touched.
HandleGifUpload ==
    /\ CanClick
    /\ Len(selections) < MaxSelections
    /\ \E url \in Uploads \ reads :
          /\ reads' = reads \cup {url}
          /\ selections' = Append(selections, url)
    /\ UNCHANGED <<loads, awaited, clicks, loadFailed, selectedGif,
                   gifFrames, hasProcessedFrames, hasSpinnerSvg, inProgress,
                   hidden, currentStep, pageRest>>

\* processSelectedGif (180-185) up to await GifProcessor.loadGif(gifUrl).
ProcessSelectedGifStarts(url) ==
    /\ inProgress' = TRUE
    /\ hidden' = showProcessingOverlay(hidden)
    /\ loads' = Append(loads, url)

\* reader.onload (158-160): processSelectedGif on the data URL read.
ReaderOnload ==
    /\ \E url \in reads :
          /\ reads' = reads \ {url}
          /\ ProcessSelectedGifStarts(url)
    /\ UNCHANGED <<selections, awaited, clicks, loadFailed, selectedGif,
                   gifFrames, hasProcessedFrames, hasSpinnerSvg,
                   currentStep, pageRest>>

\* handleSampleGifSelect (165-178): processSelectedGif on the src of the
\* sample clicked.
HandleSampleGifSelect ==
    /\ CanClick
    /\ Len(selections) < MaxSelections
    /\ \E url \in Samples :
          /\ selections' = Append(selections, url)
          /\ ProcessSelectedGifStarts(url)
    /\ UNCHANGED <<reads, awaited, clicks, loadFailed, selectedGif,
                   gifFrames, hasProcessedFrames, hasSpinnerSvg,
                   currentStep, pageRest>>

\* processSelectedGif (185-204) after loadGif resolved for one of the URLs
\* in loading: the state is set, the conversion options shown, step 2,
\* updateUIState, hideProcessingOverlay.
LoadGifResolves ==
    /\ \E i \in 1..Len(loads) :
          /\ selectedGif' = loads[i]
          /\ gifFrames' = loads[i]
          /\ loads' = Without(loads, i)
    /\ currentStep' = 2
    /\ hidden' = hideProcessingOverlay(
                     updateUIState(
                         [hidden EXCEPT !.conversionOptions = FALSE], 2))
    /\ inProgress' = FALSE
    /\ UNCHANGED <<reads, selections, awaited, clicks, loadFailed,
                   hasProcessedFrames, hasSpinnerSvg, pageRest>>

\* processSelectedGif (205-209) after loadGif rejected (gifImg.onerror, or
\* fetch or the parser failed): hideProcessingOverlay and an alert.
LoadGifRejects ==
    /\ \E i \in 1..Len(loads) : loads' = Without(loads, i)
    /\ loadFailed' = TRUE
    /\ hidden' = hideProcessingOverlay(hidden)
    /\ inProgress' = FALSE
    /\ UNCHANGED <<reads, selections, awaited, clicks, selectedGif,
                   gifFrames, hasProcessedFrames, hasSpinnerSvg,
                   currentStep, pageRest>>

\* processGifFrames (245-267) up to await SvgConverter.convertFrames: the
\* button is in the conversion options section.
ProcessGifFramesStarts ==
    /\ CanClick
    /\ ~hidden.conversionOptions
    /\ clicks < MaxClicks
    /\ gifFrames # "none"
    /\ clicks' = clicks + 1
    /\ inProgress' = TRUE
    /\ hidden' = showProcessingOverlay(hidden)
    /\ awaited' = [awaited EXCEPT !.convertFrames = @ + 1]
    /\ UNCHANGED <<reads, loads, selections, loadFailed, selectedGif,
                   gifFrames, hasProcessedFrames, hasSpinnerSvg,
                   currentStep, pageRest>>

\* processGifFrames (261-276) after convertFrames resolved: step 3, the
\* spinner design shown, the preview drawn, hideProcessingOverlay.
ProcessGifFramesResumes ==
    /\ awaited.convertFrames > 0
    /\ awaited' = [awaited EXCEPT !.convertFrames = @ - 1]
    /\ hasProcessedFrames' = TRUE
    /\ currentStep' = 3
    /\ hidden' = hideProcessingOverlay(
                     [hidden EXCEPT !.spinnerDesign = FALSE])
    /\ inProgress' = FALSE
    /\ UNCHANGED <<reads, loads, selections, clicks, loadFailed,
                   selectedGif, gifFrames, hasSpinnerSvg, pageRest>>

\* generateSpinner (305-321) up to await SpinnerGenerator.generateSpinner:
\* the button is in the spinner design section.
GenerateSpinnerStarts ==
    /\ CanClick
    /\ ~hidden.spinnerDesign
    /\ clicks < MaxClicks
    /\ hasProcessedFrames
    /\ clicks' = clicks + 1
    /\ inProgress' = TRUE
    /\ hidden' = showProcessingOverlay(hidden)
    /\ awaited' = [awaited EXCEPT !.generateSpinner = @ + 1]
    /\ UNCHANGED <<reads, loads, selections, loadFailed, selectedGif,
                   gifFrames, hasProcessedFrames, hasSpinnerSvg,
                   currentStep, pageRest>>

\* generateSpinner (315-330) after the promise resolved: the design is
\* kept, step 4, the output options shown, hideProcessingOverlay.
GenerateSpinnerResumes ==
    /\ awaited.generateSpinner > 0
    /\ awaited' = [awaited EXCEPT !.generateSpinner = @ - 1]
    /\ hasSpinnerSvg' = TRUE
    /\ currentStep' = 4
    /\ hidden' = hideProcessingOverlay(
                     [hidden EXCEPT !.outputOptions = FALSE])
    /\ inProgress' = FALSE
    /\ UNCHANGED <<reads, loads, selections, clicks, loadFailed,
                   selectedGif, gifFrames, hasProcessedFrames, pageRest>>

\* exportFiles (373-393) up to await Exporters.exportFiles: the button is
\* in the output options section.
ExportFilesStarts ==
    /\ CanClick
    /\ ~hidden.outputOptions
    /\ clicks < MaxClicks
    /\ hasSpinnerSvg
    /\ clicks' = clicks + 1
    /\ inProgress' = TRUE
    /\ hidden' = showProcessingOverlay(hidden)
    /\ awaited' = [awaited EXCEPT !.exportFiles = @ + 1]
    /\ UNCHANGED <<reads, loads, selections, loadFailed, selectedGif,
                   gifFrames, hasProcessedFrames, hasSpinnerSvg,
                   currentStep, pageRest>>

\* exportFiles (387-396) after Exporters.exportFiles resolved:
\* hideProcessingOverlay and an alert.
ExportFilesResumes ==
    /\ awaited.exportFiles > 0
    /\ awaited' = [awaited EXCEPT !.exportFiles = @ - 1]
    /\ hidden' = hideProcessingOverlay(hidden)
    /\ inProgress' = FALSE
    /\ UNCHANGED <<reads, loads, selections, clicks, loadFailed,
                   selectedGif, gifFrames, hasProcessedFrames,
                   hasSpinnerSvg, currentStep, pageRest>>

\* The number of asynchronous operations of the page that were started
\* and have not completed: loads of a GIF, conversions of the frames,
\* generations of the spinner and exports.
Unfinished ==
    Len(loads) + awaited.convertFrames + awaited.generateSpinner
    + awaited.exportFiles

\* C27: whenever at least one asynchronous operation of the page (GIF
\* load, frame conversion, spinner generation, export) has been started and
\* has not completed, the processing overlay is visible and
\* processingStatus.inProgress is true, also when two operations overlap.
C27_OverlayWhileBusy ==
    Unfinished > 0 => (~hidden.processingOverlay /\ inProgress)

\* C28: when two GIF selections overlap, after both loads have completed
\* appState.selectedGif and appState.gifFrames belong to the GIF the user
\* selected last, whichever load finishes last.
C28_LastSelectionWins ==
    (/\ Len(selections) >= 2
     /\ reads = {}
     /\ loads = <<>>
     /\ ~loadFailed) =>
        /\ selectedGif = selections[Len(selections)]
        /\ gifFrames = selections[Len(selections)]

\* C29: in every reachable state of the page a section is visible only if
\* currentStep has reached it: the conversion options only at step >= 2,
\* the spinner design only at step >= 3, the output options only at
\* step 4.
C29_VisibleOnlyIfReached ==
    /\ ~hidden.conversionOptions => currentStep >= 2
    /\ ~hidden.spinnerDesign => currentStep >= 3
    /\ ~hidden.outputOptions => currentStep = 4

\* ------------------------------------------------------------------------
\* Exporters.exportFiles (src/unnamed/part_000 14-63)
\* ------------------------------------------------------------------------

\* The model thickness control goes from 1 to 10.
ModelThicknesses == {1, 3, 5, 10}

ExportOptionValues ==
    [exportSvg : BOOLEAN, exportPng : BOOLEAN, exportStl : BOOLEAN,
     modelThickness : ModelThicknesses]

\* totalExports (26-31)
totalExports(opts) ==
    (IF opts.exportSvg THEN 1 ELSE 0) + (IF opts.exportPng THEN 1 ELSE 0)
    + (IF opts.exportStl THEN 1 ELSE 0)

\* Progress values are kept in sixths, which are whole numbers for
\* totalExports in 1..3: (completed / total) * 100 and
\* (completed / total) * 50 + 10.
Done6(completed, total) == (600 * completed) \div total

Starting6(completed, total) == (300 * completed) \div total + 60

ExportInit ==
    /\ exportOptions \in ExportOptionValues
    /\ exportCall = "none"
    /\ completedExports = 0
    /\ reported = <<>>

\* Lines 51-58 reached with the values log reported and completed exports
\* done: the STL export is started if selected, otherwise the promise is
\* resolved.
ToStl(log, completed) ==
    IF exportOptions.exportStl
    THEN /\ reported' = Append(log, Starting6(completed,
                                              totalExports(exportOptions)))
         /\ exportCall' = "exportStlFile"
    ELSE /\ reported' = log
         /\ exportCall' = "resolved"

\* Lines 43-58 reached: the PNG export is started if selected, otherwise
\* the STL part follows.
ToPng(log, completed) ==
    IF exportOptions.exportPng
    THEN /\ reported' = Append(log, Starting6(completed,
                                              totalExports(exportOptions)))
         /\ exportCall' = "exportPngFile"
    ELSE ToStl(log, completed)

\* exportFiles up to its first await: with SVG selected progress 10 is
\* reported and exportSvgFile awaited.
ExportFilesCalled ==
    /\ exportCall = "none"
    /\ IF exportOptions.exportSvg
       THEN /\ reported' = Append(reported, 60)
            /\ exportCall' = "exportSvgFile"
       ELSE ToPng(reported, completedExports)
    /\ UNCHANGED <<exportOptions, completedExports>>

\* exportSvgFile resolved (36-39), then on to the PNG part.
SvgFileExported ==
    /\ exportCall = "exportSvgFile"
    /\ completedExports' = completedExports + 1
    /\ ToPng(Append(reported, Done6(completedExports + 1,
                                    totalExports(exportOptions))),
             completedExports + 1)
    /\ UNCHANGED exportOptions

\* exportPngFile resolved (44-47), then on to the STL part.
PngFileExported ==
    /\ exportCall = "exportPngFile"
    /\ completedExports' = completedExports + 1
    /\ ToStl(Append(reported, Done6(completedExports + 1,
                                    totalExports(exportOptions))),
             completedExports + 1)
    /\ UNCHANGED exportOptions

\* exportStlFile resolved (52-58): progress 100 and the promise resolved.
StlFileExported ==
    /\ exportCall = "exportStlFile"
    /\ completedExports' = completedExports + 1
    /\ reported' = Append(reported, 600)
    /\ exportCall' = "resolved"
    /\ UNCHANGED exportOptions

\* The export awaited rejected (59-61): the promise is rejected.
ExportFileFails ==
    /\ exportCall \in {"exportSvgFile", "exportPngFile", "exportStlFile"}
    /\ exportCall' = "rejected"
    /\ UNCHANGED <<exportOptions, completedExports, reported>>

\* C30: during Exporters.exportFiles, for every combination of selected
\* formats (SVG, PNG, STL), the sequence of progress values passed to the
\* progress callback is non-decreasing.
C30_ProgressMonotone ==
    \A i, j \in 1..Len(reported) : i <= j => reported[i] <= reported[j]

\* No bitmap: simplifyContour is called on the point sequence sContour.
TraceIdle ==
    /\ width = 1 /\ height = 1
    /\ bitmap = [i \in 0..0 |-> 0]
    /\ visited = [i \in 0..0 |-> 0]
    /\ contours = <<>> /\ sidx = 0 /\ contour = <<>>
    /\ cx = 0 /\ cy = 0 /\ dir = 0 /\ count = 0
    /\ stop = "none" /\ pc = "idle" /\ traces = <<>>

\* The converter is not used.
ConverterIdle ==
    /\ TraceIdle /\ sContour = <<>>
    /\ SimplifyInit
    /\ ConvertInit

\* No image is preprocessed.
PreprocessIdle ==
    /\ imageData = [width |-> 0, height |-> 0, data |-> <<>>]
    /\ preOptions = [threshold |-> 0, detailLevel |-> 1]
    /\ preCall = "none"
    /\ preBitmap = <<>>

\* The layout engine is not called.
LayoutIdle ==
    /\ svgFrames = [present |-> FALSE, list |-> <<>>]
    /\ layoutOptions = CHOOSE opts \in LayoutSpecs : TRUE
    /\ layoutCall = "idle"
    /\ layoutResult = [status |-> "none", value |-> [kind |-> "none"]]
    /\ layoutProgress = 0
    /\ layoutCalls = 0

\* The page is not open.
PageIdle ==
    /\ controls = CHOOSE opts \in LayoutSpecs : TRUE
    /\ processedFrames = <<>>
    /\ spinnerPreview = [shown |-> FALSE, frames |-> <<>>,
                         opts |-> controls]
    /\ spinnerSvg = NoSvg
    /\ pageCall = [name |-> "idle", svg |-> NoSvg]
    /\ handedToExporter = NoSvg
    /\ currentStep = 0

\* convertFrames is not called.
BatchIdle ==
    /\ batchLength = 0
    /\ batchMethod = "simple"
    /\ batchIndex = 0
    /\ batchSvgFrames = <<>>
    /\ batchProgress = 0
    /\ batchCall = "idle"
    /\ cancel = [requested |-> FALSE, during |-> 0]

\* The page is not open: the state of the document as it is served.
UiIdle ==
    /\ reads = {}
    /\ loads = <<>>
    /\ selections = <<>>
    /\ awaited = [convertFrames |-> 0, generateSpinner |-> 0,
                  exportFiles |-> 0]
    /\ clicks = 0
    /\ loadFailed = FALSE
    /\ selectedGif = "null"
    /\ gifFrames = "none"
    /\ hasProcessedFrames = FALSE
    /\ hasSpinnerSvg = FALSE
    /\ inProgress = FALSE
    /\ hidden = [conversionOptions |-> TRUE, spinnerDesign |-> TRUE,
                 outputOptions |-> TRUE, processingOverlay |-> TRUE]

\* Exporters.exportFiles is not called.
ExportIdle ==
    /\ exportOptions = [exportSvg |-> TRUE, exportPng |-> FALSE,
                        exportStl |-> FALSE, modelThickness |-> 3]
    /\ exportCall = "idle"
    /\ completedExports = 0
    /\ reported = <<>>

RestIdle == BatchIdle /\ UiIdle /\ ExportIdle

Init ==
    /\ \/ TraceInit /\ sContour = <<>>
       \/ TraceIdle /\ sContour \in Contours
    /\ SimplifyInit
    /\ ConvertInit
    /\ PreprocessIdle
    /\ LayoutIdle
    /\ PageIdle
    /\ RestIdle

Next ==
    \/ ScanSkip /\ UNCHANGED <<simplifyVars, convertVars>>
                /\ UNCHANGED <<preprocessVars, layoutVars, pageVars,
                               restVars>>
    \/ StartContour /\ UNCHANGED <<simplifyVars, convertVars>>
                    /\ UNCHANGED <<preprocessVars, layoutVars, pageVars,
                                   restVars>>
    \/ TraceStep /\ UNCHANGED <<simplifyVars, convertVars>>
                 /\ UNCHANGED <<preprocessVars, layoutVars, pageVars,
                                restVars>>
    \/ EndContour /\ UNCHANGED <<simplifyVars, convertVars>>
                  /\ UNCHANGED <<preprocessVars, layoutVars, pageVars,
                                 restVars>>
    \/ ReturnContours /\ UNCHANGED <<simplifyVars, convertVars>>
                      /\ UNCHANGED <<preprocessVars, layoutVars, pageVars,
                                     restVars>>
    \/ CallSimplifyContour
          /\ UNCHANGED <<preprocessVars, layoutVars, pageVars, restVars>>
    \/ ConvertFrameSimple
          /\ UNCHANGED <<preprocessVars, layoutVars, pageVars, restVars>>
    \/ ConvertFrameAdvanced
          /\ UNCHANGED <<preprocessVars, layoutVars, pageVars, restVars>>

\* The converter: findContours, simplifyContour and the two conversions.
Spec == Init /\ [][Next]_vars

PreprocessNext ==
    \/ PreprocessBitmap
          /\ UNCHANGED <<traceVars, simplifyVars, convertVars, layoutVars,
                         pageVars, restVars>>
    \/ PreprocessBitmapAdvanced
          /\ UNCHANGED <<traceVars, simplifyVars, convertVars, layoutVars,
                         pageVars, restVars>>

\* The two preprocessing functions on every image.
InitPreprocess ==
    ConverterIdle /\ PreprocessInit /\ LayoutIdle /\ PageIdle /\ RestIdle

SpecPreprocess == InitPreprocess /\ [][PreprocessNext]_vars

LayoutNext ==
    \/ GeneratePreview
          /\ UNCHANGED <<traceVars, simplifyVars, convertVars,
                         preprocessVars, pageVars, restVars>>
    \/ GenerateSpinner
          /\ UNCHANGED <<traceVars, simplifyVars, convertVars,
                         preprocessVars, pageVars, restVars>>
    \/ GenerateSpinnerProgress
          /\ UNCHANGED <<traceVars, simplifyVars, convertVars,
                         preprocessVars, pageVars, restVars>>
    \/ GenerateSpinnerResolve
          /\ UNCHANGED <<traceVars, simplifyVars, convertVars,
                         preprocessVars, pageVars, restVars>>

\* One call of an entry point of the layout engine.
InitLayout ==
    ConverterIdle /\ PreprocessIdle /\ LayoutInit /\ PageIdle /\ RestIdle

SpecLayout == InitLayout /\ [][LayoutNext]_vars

RepeatNext ==
    \/ LayoutNext
    \/ GeneratePreviewAgain
          /\ UNCHANGED <<traceVars, simplifyVars, convertVars,
                         preprocessVars, pageVars, restVars>>
    \/ GenerateSpinnerAgain
          /\ UNCHANGED <<traceVars, simplifyVars, convertVars,
                         preprocessVars, pageVars, restVars>>

\* Repeated calls of an entry point of the layout engine on the same
\* frames and options.
SpecRepeat == InitLayout /\ [][RepeatNext]_vars

PageNext ==
    \/ ProcessGifFrames
          /\ UNCHANGED <<traceVars, simplifyVars, convertVars,
                         preprocessVars, layoutVars, restVars>>
    \/ ChangeSpinnerControl
          /\ UNCHANGED <<traceVars, simplifyVars, convertVars,
                         preprocessVars, layoutVars, restVars>>
    \/ GenerateSpinnerClick
          /\ UNCHANGED <<traceVars, simplifyVars, convertVars,
                         preprocessVars, layoutVars, restVars>>
    \/ GenerateSpinnerDone
          /\ UNCHANGED <<traceVars, simplifyVars, convertVars,
                         preprocessVars, layoutVars, restVars>>
    \/ ExportFiles
          /\ UNCHANGED <<traceVars, simplifyVars, convertVars,
                         preprocessVars, layoutVars, restVars>>
    \/ ExportFilesDone
          /\ UNCHANGED <<traceVars, simplifyVars, convertVars,
                         preprocessVars, layoutVars, restVars>>

\* The page after a GIF was loaded: processing, the spinner controls,
\* generating and exporting.
InitPage ==
    ConverterIdle /\ PreprocessIdle /\ LayoutIdle /\ PageInit /\ RestIdle

SpecPage == InitPage /\ [][PageNext]_vars

BatchNext ==
    \/ ConvertFramesCall
          /\ UNCHANGED <<traceVars, simplifyVars, convertVars,
                         preprocessVars, layoutVars, pageVars, uiVars,
                         exportVars>>
    \/ ConvertFrame
          /\ UNCHANGED <<traceVars, simplifyVars, convertVars,
                         preprocessVars, layoutVars, pageVars, uiVars,
                         exportVars>>
    \/ ConvertFramesReturn
          /\ UNCHANGED <<traceVars, simplifyVars, convertVars,
                         preprocessVars, layoutVars, pageVars, uiVars,
                         exportVars>>
    \/ RequestCancel
          /\ UNCHANGED <<traceVars, simplifyVars, convertVars,
                         preprocessVars, layoutVars, pageVars, uiVars,
                         exportVars>>

\* One call of convertFrames on a batch of frames.
InitBatch ==
    ConverterIdle /\ PreprocessIdle /\ LayoutIdle /\ PageIdle /\ BatchInit
    /\ UiIdle /\ ExportIdle

SpecBatch == InitBatch /\ [][BatchNext]_vars

WizardNext ==
    \/ HandleGifUpload
          /\ UNCHANGED <<traceVars, simplifyVars, convertVars,
                         preprocessVars, layoutVars, batchVars,
                         exportVars>>
    \/ ReaderOnload
          /\ UNCHANGED <<traceVars, simplifyVars, convertVars,
                         preprocessVars, layoutVars, batchVars,
                         exportVars>>
    \/ HandleSampleGifSelect
          /\ UNCHANGED <<traceVars, simplifyVars, convertVars,
                         preprocessVars, layoutVars, batchVars,
                         exportVars>>
    \/ LoadGifResolves
          /\ UNCHANGED <<traceVars, simplifyVars, convertVars,
                         preprocessVars, layoutVars, batchVars,
                         exportVars>>
    \/ LoadGifRejects
          /\ UNCHANGED <<traceVars, simplifyVars, convertVars,
                         preprocessVars, layoutVars, batchVars,
                         exportVars>>
    \/ ProcessGifFramesStarts
          /\ UNCHANGED <<traceVars, simplifyVars, convertVars,
                         preprocessVars, layoutVars, batchVars,
                         exportVars>>
    \/ ProcessGifFramesResumes
          /\ UNCHANGED <<traceVars, simplifyVars, convertVars,
                         preprocessVars, layoutVars, batchVars,
                         exportVars>>
    \/ GenerateSpinnerStarts
          /\ UNCHANGED <<traceVars, simplifyVars, convertVars,
                         preprocessVars, layoutVars, batchVars,
                         exportVars>>
    \/ GenerateSpinnerResumes
          /\ UNCHANGED <<traceVars, simplifyVars, convertVars,
                         preprocessVars, layoutVars, batchVars,
                         exportVars>>
    \/ ExportFilesStarts
          /\ UNCHANGED <<traceVars, simplifyVars, convertVars,
                         preprocessVars, layoutVars, batchVars,
                         exportVars>>
    \/ ExportFilesResumes
          /\ UNCHANGED <<traceVars, simplifyVars, convertVars,
                         preprocessVars, layoutVars, batchVars,
                         exportVars>>

\* The wizard from the opening of the page: GIF selection, the four steps
\* and the overlay.
InitWizard ==
    ConverterIdle /\ PreprocessIdle /\ LayoutIdle /\ BatchIdle /\ WizardInit
    /\ ExportIdle

SpecWizard == InitWizard /\ [][WizardNext]_vars

ExportNext ==
    \/ ExportFilesCalled
          /\ UNCHANGED <<traceVars, simplifyVars, convertVars,
                         preprocessVars, layoutVars, pageVars, batchVars,
                         uiVars>>
    \/ SvgFileExported
          /\ UNCHANGED <<traceVars, simplifyVars, convertVars,
                         preprocessVars, layoutVars, pageVars, batchVars,
                         uiVars>>
    \/ PngFileExported
          /\ UNCHANGED <<traceVars, simplifyVars, convertVars,
                         preprocessVars, layoutVars, pageVars, batchVars,
                         uiVars>>
    \/ StlFileExported
          /\ UNCHANGED <<traceVars, simplifyVars, convertVars,
                         preprocessVars, layoutVars, pageVars, batchVars,
                         uiVars>>
    \/ ExportFileFails
          /\ UNCHANGED <<traceVars, simplifyVars, convertVars,
                         preprocessVars, layoutVars, pageVars, batchVars,
                         uiVars>>

\* One call of Exporters.exportFiles.
InitExport ==
    /\ ConverterIdle /\ PreprocessIdle /\ LayoutIdle /\ PageIdle
    /\ BatchIdle /\ UiIdle /\ ExportInit

SpecExport == InitExport /\ [][ExportNext]_vars

====
